---------------------------- MODULE Spec2Model ----------------------------
(***************************************************************************)
(* Model of docforge's node tree (pkg/api/nodes.go) and link validator.    *)
(*                                                                         *)
(* Go strings are sequences of one-character strings, so that joining,     *)
(* splitting and substring search are computed and not assumed.            *)
(* Node pointers are positive integers, nil is 0, and `heap` maps every    *)
(* allocated pointer to the fields of its api.Node.                        *)
(***************************************************************************)
EXTENDS Integers, Sequences, FiniteSets, TLC

VARIABLES
    heap,       \* pointer -> api.Node fields
    recv,       \* SpecUnion: the receiver n of n.Union(incoming)
    incoming,   \* SpecUnion: the argument slice of Union
    ucalls,     \* SpecUnion: number of Union calls made so far
    uret,       \* SpecUnion: what the last Union call returned and logged
    before,     \* SpecUnion: heap as it was when the last Union call started
    pfrom,      \* SpecPath: the receiver of the last RelativePath call on
                \* the tree as it is now, or nil
    pto,        \* SpecPath: its argument
    presult,    \* SpecPath: the string it returned
    validated,  \* SpecValidate: ValidatorWorker.validated.set
    vw,         \* SpecValidate: caller -> its Validate call in progress
    vcount,     \* SpecValidate: Validate calls started so far
    okProbed,   \* SpecValidate: normalized URLs a probe of which succeeded
    marked,     \* SpecValidate: links whose call returned after validated.add
    mux,        \* SpecValidate: linkSet.mux, the RWMutex of the validated set
    gh,         \* SpecGitHub: the file system and the calls of the workers
                \* of the pool, Work or FSWriter.Write, each with its
                \* position and what it returned
    gi,         \* SpecGitInfo: a ReadGitInfo call, the commit log it reads and
                \* what it returned
    rs          \* SpecResolve: a ResolveNodeSelector call, the directory it
                \* walks and what it returned

unionVars == <<recv, incoming, ucalls, uret, before>>
pathVars == <<pfrom, pto, presult>>
validatorVars == <<validated, vw, vcount, okProbed, marked, mux>>
fileVars == <<gh, gi, rs>>
vars ==
    <<heap, recv, incoming, ucalls, uret, before, pfrom, pto, presult,
      validated, vw, vcount, okProbed, marked, mux, gh, gi, rs>>

----------------------------------------------------------------------------
(* Bounds *)

\* longest incoming slice handed to Union
MaxIncoming == 2
\* most children the receiver has before the first Union call
MaxExisting == 2
\* Union calls made on one receiver with the same incoming slice
MaxCalls == 2
\* nodes of the forest RelativePath is called on
MaxTreeNodes == 3
\* Validate calls made on one ValidatorWorker
MaxValidateCalls == 2
\* Validate calls made on one ValidatorWorker by two concurrent callers
MaxConcurrentCalls == 3
\* segments of the entry path of a GitHubTask
MaxEntryDepth == 2
MaxPoolWorkers == 2
\* entries of the commit log ReadGitInfo reads
MaxLogLen == 3
\* entries of the directory ResolveNodeSelector walks, the root included
MaxWalkEntries == 5

----------------------------------------------------------------------------
(* Strings and slices *)

EmptyStr == <<>>
NameA == <<"a">>
NameB == <<"b">>
NameR == <<"r">>
Src1 == <<"s", "1">>
Src2 == <<"s", "2">>

\* a Go slice that is nil, and one that holds elems (possibly none)
NilSlice == [isNil |-> TRUE, elems |-> <<>>]
SliceOf(s) == [isNil |-> FALSE, elems |-> s]
\* a *Template that is nil, and one pointing to a template with one source
NilTemplate == [isNil |-> TRUE, sources |-> <<>>]
Template1 == [isNil |-> FALSE, sources |-> <<Src1>>]

NilNode == 0

\* the value of gh, gi and rs in the specifications that make no such call
NoCall == <<>>

\* the zero value of sync.RWMutex: no reader and no writer holds it
Unlocked == [readers |-> {}, writer |-> {}]

\* the content descriptors of a node (Source, ContentSelectors, Template)
ContainerContent == [Source |-> EmptyStr, ContentSelectors |-> NilSlice, Template |-> NilTemplate]
SourceContent(s) == [Source |-> s, ContentSelectors |-> NilSlice, Template |-> NilTemplate]
EmptySelectorsContent == [Source |-> EmptyStr, ContentSelectors |-> SliceOf(<<>>), Template |-> NilTemplate]
SelectorsContent == [Source |-> EmptyStr, ContentSelectors |-> SliceOf(<<Src1>>), Template |-> NilTemplate]
TemplateContent == [Source |-> EmptyStr, ContentSelectors |-> NilSlice, Template |-> Template1]

\* &api.Node{Name: name, ...content, Nodes: nodes}, nodes being NilSlice or
\* SliceOf(children): Nodes holds the elements and nilNodes tells the nil
\* slice from the empty one; parent is nil until SetParent or
\* SetParentsDownwards assigns it
NewNode(name, content, nodes) ==
    [Name |-> name, Source |-> content.Source,
     ContentSelectors |-> content.ContentSelectors,
     Template |-> content.Template, Nodes |-> nodes.elems,
     nilNodes |-> nodes.isNil, parent |-> NilNode]

\* the children as a manifest without a `nodes` key, or with one that lists
\* children, leaves them
NodesOf(children) ==
    IF children = <<>> THEN NilSlice ELSE SliceOf(children)

----------------------------------------------------------------------------
(* pkg/api/nodes.go *)

\* func (n *Node) isDocument() bool
isDocument(n) ==
    n.Source # EmptyStr \/ ~n.Template.isNil \/ ~n.ContentSelectors.isNil

\* reflect.DeepEqual(x, y) on two *Node: equal pointers are equal, a nil and
\* a non-nil pointer differ, otherwise every field is compared, pointers
\* being followed; a pair of pointers already under comparison is taken as
\* equal (reflect's visited map), which ends the walk on parent cycles; a
\* nil slice and an empty slice differ.
RECURSIVE DeepEqualVisited(_, _, _, _)
DeepEqualVisited(h, x, y, visited) ==
    IF x = y THEN TRUE
    ELSE IF x = NilNode \/ y = NilNode THEN FALSE
    ELSE IF <<x, y>> \in visited \/ <<y, x>> \in visited THEN TRUE
    ELSE LET seen == visited \cup {<<x, y>>}
             a == h[x]
             b == h[y]
         IN  /\ a.Name = b.Name
             /\ a.Source = b.Source
             /\ a.ContentSelectors = b.ContentSelectors
             /\ a.Template = b.Template
             /\ a.nilNodes = b.nilNodes
             /\ Len(a.Nodes) = Len(b.Nodes)
             /\ \A i \in 1..Len(a.Nodes) :
                    DeepEqualVisited(h, a.Nodes[i], b.Nodes[i], seen)
             /\ DeepEqualVisited(h, a.parent, b.parent, seen)

DeepEqual(h, x, y) == DeepEqualVisited(h, x, y, {})

\* the name -> node map Union builds from n.Nodes; a later child with the
\* same name replaces an earlier one
NodesByName(h, n) ==
    LET kids == h[n].Nodes
        names == {h[kids[i]].Name : i \in 1..Len(kids)}
        last(nm) == CHOOSE i \in 1..Len(kids) :
                        /\ h[kids[i]].Name = nm
                        /\ \A j \in (i+1)..Len(kids) : h[kids[j]].Name # nm
    IN  [nm \in names |-> kids[last(nm)]]

\* func (n *Node) SetParent(node *Node)
SetParent(h, n, node) == [h EXCEPT ![n].parent = node]

\* the parent references lead from n to nil in at most `steps` steps
RECURSIVE ParentsEnd(_, _, _)
ParentsEnd(h, n, steps) ==
    IF n = NilNode THEN TRUE
    ELSE IF steps = 0 THEN FALSE
    ELSE ParentsEnd(h, h[n].parent, steps - 1)

\* the parent references from n on run in a circle: n.Parents() recurses
\* without end
ParentsCycle(h, n) == ~ParentsEnd(h, n, Len(h))

\* func (n *Node) Parents() []*Node, of a node whose parent references end
RECURSIVE Parents(_, _)
Parents(h, n) ==
    IF h[n].parent = NilNode THEN <<>>
    ELSE Append(Parents(h, h[n].parent), h[n].parent)

\* func (n *Node) SetParentsDownwards(), and its loop over n.Nodes from the
\* i-th child on
RECURSIVE SetParentsDownwards(_, _)
RECURSIVE SetParentsLoop(_, _, _)
SetParentsLoop(h, n, i) ==
    IF i > Len(h[n].Nodes) THEN h
    ELSE LET child == h[n].Nodes[i]
             h1 == [h EXCEPT ![child].parent = n]
         IN  SetParentsLoop(SetParentsDownwards(h1, child), n, i + 1)

SetParentsDownwards(h, n) ==
    IF Len(h[n].Nodes) > 0 THEN SetParentsLoop(h, n, 1) ELSE h

\* the printable ASCII characters in ascending order: from " " (0x20) to
\* "_" (0x5F) and from "a" (0x61) to "~" (0x7E); the grave accent (0x60)
\* between them cannot be written in a string of this module
AsciiToUnderscore ==
    <<" ", "!", "\"", "#", "$", "%", "&", "'", "(", ")", "*", "+", ",", "-",
      ".", "/", "0", "1", "2", "3", "4", "5", "6", "7", "8", "9", ":", ";",
      "<", "=", ">", "?", "@", "A", "B", "C", "D", "E", "F", "G", "H", "I",
      "J", "K", "L", "M", "N", "O", "P", "Q", "R", "S", "T", "U", "V", "W",
      "X", "Y", "Z", "[", "\\", "]", "^", "_">>
AsciiFromA ==
    <<"a", "b", "c", "d", "e", "f", "g", "h", "i", "j", "k", "l", "m", "n",
      "o", "p", "q", "r", "s", "t", "u", "v", "w", "x", "y", "z", "{", "|",
      "}", "~">>

\* the vertical tab U+000B, the next line U+0085 and the no-break space
\* U+00A0, written as the characters themselves
VT == ""
NEL == ""
NBSP == " "

\* the bytes of the character c in a Go string (UTF-8)
BytesOf(c) ==
    CASE c = "\t" -> <<9>>
      [] c = "\n" -> <<10>>
      [] c = VT -> <<11>>
      [] c = "\f" -> <<12>>
      [] c = "\r" -> <<13>>
      [] c = NEL -> <<194, 133>>
      [] c = NBSP -> <<194, 160>>
      [] \E k \in 1..Len(AsciiFromA) : AsciiFromA[k] = c
            -> <<96 + (CHOOSE k \in 1..Len(AsciiFromA) : AsciiFromA[k] = c)>>
      [] OTHER
            -> <<31 + (CHOOSE k \in 1..Len(AsciiToUnderscore) :
                           AsciiToUnderscore[k] = c)>>

\* the bytes of the string s
RECURSIVE Utf8(_)
Utf8(s) == IF s = EmptyStr THEN <<>> ELSE BytesOf(Head(s)) \o Utf8(Tail(s))

\* the comparison a > b of two byte sequences
RECURSIVE BytesGreater(_, _)
BytesGreater(a, b) ==
    IF a = <<>> THEN FALSE
    ELSE IF b = <<>> THEN TRUE
    ELSE IF Head(a) # Head(b) THEN Head(a) > Head(b)
    ELSE BytesGreater(Tail(a), Tail(b))

\* the Go string comparison a > b, byte by byte
StringGreater(a, b) == BytesGreater(Utf8(a), Utf8(b))

\* what sort.Slice(nodes, func(i, j) { nodes[i].Name > nodes[j].Name }) can
\* leave in the slice: its elements with no name before a greater one; the
\* sort is not stable, the order of nodes with one name is any
SortedSlices(h, nodes) ==
    LET n == Len(nodes)
        perms == {f \in [1..n -> 1..n] : \A i, j \in 1..n : i # j => f[i] # f[j]}
    IN  {[i \in 1..n |-> nodes[f[i]]] : f \in
            {g \in perms :
                \A i, j \in 1..n :
                    i < j => ~StringGreater(h[nodes[g[j]]].Name,
                                            h[nodes[g[i]]].Name)}}

\* func SortNodesByName(node *Node), as the set of the heaps it can leave,
\* and its loop over the sorted children from the i-th on
RECURSIVE SortNodesByName(_, _)
RECURSIVE SortNodesLoop(_, _, _)
SortNodesLoop(h, nodes, i) ==
    IF i > Len(nodes) THEN {h}
    ELSE UNION {SortNodesLoop(h1, nodes, i + 1) :
                    h1 \in SortNodesByName(h, nodes[i])}

SortNodesByName(h, node) ==
    IF h[node].nilNodes THEN {h}
    ELSE UNION {SortNodesLoop([h EXCEPT ![node].Nodes = sorted], sorted, 1) :
                    sorted \in SortedSlices(h, h[node].Nodes)}

\* strings.Join(s, sep)
RECURSIVE Join(_, _)
Join(s, sep) ==
    IF Len(s) = 0 THEN EmptyStr
    ELSE IF Len(s) = 1 THEN s[1]
    ELSE s[1] \o sep \o Join(Tail(s), sep)

Slash == <<"/">>
Dot == <<".">>
DotDot == <<".", ".">>

\* func intersect(a, b []*Node) []*Node: the elements of b found in a, in
\* the order of b
intersect(a, b) ==
    SelectSeq(b, LAMBDA v : \E i \in 1..Len(a) : a[i] = v)

\* the Go slice expression s[k:]
SliceFrom(s, k) == SubSeq(s, k + 1, Len(s))

NamesOf(h, nodes) == [i \in 1..Len(nodes) |-> h[nodes[i]].Name]
DotDots(n) == [i \in 1..n |-> DotDot]

\* relativePath, "to is descendant"
DescendantPath(h, toPathToRoot, intersection) ==
    LET s == NamesOf(h, SliceFrom(toPathToRoot, Len(intersection) - 1))
    IN  Join([s EXCEPT ![1] = Dot], Slash)

\* the ancestor case with the slice taken one element too early
AncestorPathOffByOne(h, fromPathToRoot, intersection, to) ==
    Join(Append(DotDots(Len(SliceFrom(fromPathToRoot, Len(intersection) - 1))),
                h[to].Name), Slash)

\* relativePath, "to is ancestor"
AncestorPath(h, fromPathToRoot, intersection, to) ==
    Join(Append(DotDots(Len(SliceFrom(fromPathToRoot, Len(intersection)))),
                h[to].Name), Slash)

\* relativePath, "to is on another branch" (k = len(intersection)) and
\* "the nodes are in different trees" (k = 0)
BranchPath(h, fromPathToRoot, toPathToRoot, k) ==
    LET fromRest == SliceFrom(fromPathToRoot, k)
        up == IF Len(fromRest) > 1
              THEN DotDots(Len(SliceFrom(fromRest, 1)))
              ELSE <<Dot>>
    IN  Join(up \o NamesOf(h, SliceFrom(toPathToRoot, k)), Slash)

\* the end of a call whose recursion never returns: the Go runtime stops
\* the process with "fatal error: stack overflow"
StackOverflow == <<"fatal error: stack overflow">>

\* func relativePath(from, to *Node) string
relativePath(h, from, to) ==
    IF from = to THEN h[from].Name
    ELSE IF ParentsCycle(h, from) \/ ParentsCycle(h, to) THEN StackOverflow
    ELSE
      LET fromPathToRoot == Append(Parents(h, from), from)
          toPathToRoot == Append(Parents(h, to), to)
          intersection == intersect(fromPathToRoot, toPathToRoot)
      IN  IF Len(intersection) > 0
          THEN IF intersection[Len(intersection)] = from
               THEN DescendantPath(h, toPathToRoot, intersection)
               ELSE IF intersection[Len(intersection)] = to
               THEN AncestorPath(h, fromPathToRoot, intersection, to)
               ELSE BranchPath(h, fromPathToRoot, toPathToRoot,
                               Len(intersection))
          ELSE BranchPath(h, fromPathToRoot, toPathToRoot, 0)

\* the node put in front of the children
AppendChildFront(h, n, node) ==
    [h EXCEPT ![n].Nodes = <<node>> \o @, ![n].nilNodes = FALSE]

\* the append forgotten
AppendChildDropped(h, n, node) == h

\* n.Nodes = append(n.Nodes, node)
AppendChild(h, n, node) ==
    [h EXCEPT ![n].Nodes = Append(@, node), ![n].nilNodes = FALSE]


\* what one Union call did: the heap it leaves, whether it returned an
\* error, the receivers of all Union invocations in call order, the pairs
\* <<existingNode, node>> it merged recursively, and the incoming document
\* nodes it logged a collision warning for (klog.Warningf) and left out
UnionResult(h, e, c, m, w) ==
    [heap |-> h, err |-> e, calls |-> c, merged |-> m, warned |-> w]

\* func (n *Node) Union(nodes []*Node) error
RECURSIVE Union(_, _, _)
RECURSIVE UnionLoop(_, _, _, _, _, _)

\* the loop `for _, node := range nodes` from its i-th iteration on; the
\* slice `nodes` and the map nodesByName are those taken before the loop,
\* acc is the log so far
UnionLoop(h, n, nodesByName, nodes, i, acc) ==
    IF i > Len(nodes)
    THEN UnionResult(h, FALSE, acc.calls, acc.merged, acc.warned)
    ELSE
      LET node == nodes[i] IN
      IF h[node].Name \in DOMAIN nodesByName THEN
        LET existingNode == nodesByName[h[node].Name] IN
        IF DeepEqual(h, existingNode, node)
        THEN UnionLoop(h, n, nodesByName, nodes, i + 1, acc)
        ELSE IF isDocument(h[node])
        THEN UnionLoop(h, n, nodesByName, nodes, i + 1,
                       [acc EXCEPT !.warned = Append(@, node)])
        ELSE IF Len(h[node].Nodes) > 0
        THEN LET r == Union(h, existingNode, h[node].Nodes)
                 log == [calls |-> acc.calls \o r.calls,
                         merged |-> Append(acc.merged, <<existingNode, node>>)
                                        \o r.merged,
                         warned |-> acc.warned \o r.warned]
             IN  IF r.err
                 THEN UnionResult(r.heap, TRUE, log.calls, log.merged,
                                  log.warned)
                 ELSE UnionLoop(r.heap, n, nodesByName, nodes, i + 1, log)
        ELSE UnionLoop(h, n, nodesByName, nodes, i + 1, acc)
      ELSE UnionLoop(AppendChild(h, n, node), n, nodesByName, nodes, i + 1,
                     acc)

\* Union without the container check of its first lines
UnionIntoAnyNode(h, n, nodes) ==
    UnionLoop(h, n, NodesByName(h, n), nodes, 1,
              [calls |-> <<n>>, merged |-> <<>>, warned |-> <<>>])

Union(h, n, nodes) ==
    IF isDocument(h[n])
    THEN UnionResult(h, TRUE, <<n>>, <<>>, <<>>)
    ELSE UnionLoop(h, n, NodesByName(h, n), nodes, 1,
                   [calls |-> <<n>>, merged |-> <<>>, warned |-> <<>>])

----------------------------------------------------------------------------
(* SpecUnion: a receiver with some children, an incoming slice of fresh    *)
(* fragments, and Union called on them up to MaxCalls times.  Every node   *)
(* is as a manifest parser leaves it: parent nil, Nodes nil without a      *)
(* `nodes` key and empty for `nodes: []`.                                  *)

Names == {NameA, NameB}
DocContents == {SourceContent(Src1), SourceContent(Src2)}
LeafContents == {ContainerContent} \cup DocContents
ReceiverContents ==
    {ContainerContent, SourceContent(Src1), EmptySelectorsContent,
     SelectorsContent, TemplateContent}

\* a kid of a fragment: a document, the empty container a, or (deep) the
\* container a holding the document a -> s1
NoKid ==
    [has |-> FALSE, name |-> EmptyStr, content |-> ContainerContent,
     deep |-> FALSE]
Kids ==
    {[has |-> TRUE, name |-> kn, content |-> kc, deep |-> FALSE] :
        kn \in Names, kc \in DocContents}
    \cup
    {[has |-> TRUE, name |-> NameA, content |-> ContainerContent, deep |-> d] :
        d \in BOOLEAN}

\* a fragment: a leaf whose Nodes is nil, the leaf a whose Nodes is the
\* empty slice (empty), or a container holding one kid
LeafFragments ==
    {[name |-> nm, content |-> c, kid |-> NoKid, empty |-> FALSE] :
        nm \in Names, c \in LeafContents}
EmptyNodesFragments ==
    {[name |-> NameA, content |-> c, kid |-> NoKid, empty |-> TRUE] :
        c \in {ContainerContent, SourceContent(Src1)}}
Fragments ==
    LeafFragments
    \cup EmptyNodesFragments
    \cup
    {[name |-> nm, content |-> ContainerContent, kid |-> k, empty |-> FALSE] :
        nm \in Names, k \in Kids}

SeqsUpTo(S, n) == UNION {[1..k -> S] : k \in 0..n}

\* the receiver's children before the first call: distinct names, and all
\* but the first one are documents with source s1
ExistingShapes ==
    {s \in SeqsUpTo(Fragments, MaxExisting) :
        /\ \A i, j \in 1..Len(s) : i # j => s[i].name # s[j].name
        /\ \A i \in 2..Len(s) :
              s[i] \in LeafFragments /\ s[i].content = SourceContent(Src1)}

\* pointers: 1 is the receiver, then the existing children, their kids and
\* grandkids, then the incoming nodes, their kids and grandkids
RecvPtr == 1
ExistingPtr(i) == 1 + i
ExistingKidPtr(i) == 1 + MaxExisting + i
ExistingGrandKidPtr(i) == 1 + 2 * MaxExisting + i
IncomingPtr(j) == 1 + 3 * MaxExisting + j
IncomingKidPtr(j) == 1 + 3 * MaxExisting + MaxIncoming + j
IncomingGrandKidPtr(j) == 1 + 3 * MaxExisting + 2 * MaxIncoming + j

\* the nodes of fragment f allocated at pointers p (itself), kp (its kid)
\* and gp (its grandkid)
FragmentNodes(f, p, kp, gp) ==
    LET top == {<<p, NewNode(f.name, f.content,
                             IF f.kid.has THEN SliceOf(<<kp>>)
                             ELSE IF f.empty THEN SliceOf(<<>>)
                             ELSE NilSlice)>>}
        kid == IF f.kid.has
               THEN {<<kp, NewNode(f.kid.name, f.kid.content,
                                   IF f.kid.deep THEN SliceOf(<<gp>>)
                                   ELSE NilSlice)>>}
               ELSE {}
        grandkid == IF f.kid.deep
                    THEN {<<gp, NewNode(NameA, SourceContent(Src1), NilSlice)>>}
                    ELSE {}
    IN  top \cup kid \cup grandkid

BuildHeap(rc, ex, inc) ==
    LET cells ==
            {<<RecvPtr,
               NewNode(NameR, rc,
                       NodesOf([i \in 1..Len(ex) |-> ExistingPtr(i)]))>>}
            \cup UNION {FragmentNodes(ex[i], ExistingPtr(i), ExistingKidPtr(i),
                                      ExistingGrandKidPtr(i)) :
                            i \in 1..Len(ex)}
            \cup UNION {FragmentNodes(inc[j], IncomingPtr(j), IncomingKidPtr(j),
                                      IncomingGrandKidPtr(j)) :
                            j \in 1..Len(inc)}
        dom == {c[1] : c \in cells}
    IN  [p \in dom |-> (CHOOSE c \in cells : c[1] = p)[2]]

NoReturn == [err |-> FALSE, calls |-> <<>>, merged |-> <<>>, warned |-> <<>>]

InitUnion ==
    \E rc \in ReceiverContents :
    \E ex \in ExistingShapes :
    \E inc \in SeqsUpTo(Fragments, MaxIncoming) :
        /\ rc = ContainerContent \/ (Len(ex) <= 1 /\ Len(inc) <= 1)
        /\ heap = BuildHeap(rc, ex, inc)
        /\ recv = RecvPtr
        /\ incoming = [j \in 1..Len(inc) |-> IncomingPtr(j)]
        /\ ucalls = 0
        /\ uret = NoReturn
        /\ before = heap
        /\ pfrom = NilNode
        /\ pto = NilNode
        /\ presult = EmptyStr
        /\ validated = {}
        /\ vw = <<>>
        /\ vcount = 0
        /\ okProbed = {}
        /\ marked = {}
        /\ mux = Unlocked
        /\ gh = NoCall
        /\ gi = NoCall
        /\ rs = NoCall

\* err := n.Union(incoming)
CallUnion ==
    /\ ucalls < MaxCalls
    /\ LET r == Union(heap, recv, incoming) IN
        /\ heap' = r.heap
        /\ uret' = [err |-> r.err, calls |-> r.calls, merged |-> r.merged,
                    warned |-> r.warned]
    /\ before' = heap
    /\ ucalls' = ucalls + 1
    /\ UNCHANGED <<recv, incoming, pathVars, validatorVars, fileVars>>

NextUnion == CallUnion

SpecUnion == InitUnion /\ [][NextUnion]_vars

----------------------------------------------------------------------------
(* SpecPath: a forest of MaxTreeNodes nodes built top-down without parent  *)
(* references; SetParentsDownwards, SetParent and SortNodesByName run on   *)
(* its nodes, and RelativePath called on pairs of its nodes, until a call  *)
(* ends the process.                                                       *)

Letters == <<"a", "b", "c", "d", "e", "f", "g", "h">>

\* the forests over 1..MaxTreeNodes: up[i] is the node that holds i in its
\* Nodes, or nil for a root; the nodes are numbered level by level, which
\* gives every shape of forest one numbering
Forests ==
    {up \in [1..MaxTreeNodes -> 0..MaxTreeNodes] :
        /\ \A i \in 1..MaxTreeNodes : up[i] < i
        /\ \A i \in 1..(MaxTreeNodes - 1) : up[i] <= up[i + 1]}

\* the nodes held by p (the roots for p = nil) in creation order
RECURSIVE HeldFrom(_, _, _)
HeldFrom(up, p, i) ==
    IF i > MaxTreeNodes THEN <<>>
    ELSE IF up[i] = p THEN <<i>> \o HeldFrom(up, p, i + 1)
    ELSE HeldFrom(up, p, i + 1)

Held(up, p) == HeldFrom(up, p, 1)

\* the k-th node held by the same node is named by the k-th letter
IndexIn(s, x) == CHOOSE k \in 1..Len(s) : s[k] = x

ForestHeap(up) ==
    [i \in 1..MaxTreeNodes |->
        NewNode(<<Letters[IndexIn(Held(up, up[i]), i)]>>,
                IF Len(Held(up, i)) = 0 THEN SourceContent(Src1)
                ELSE ContainerContent,
                NodesOf(Held(up, i)))]

InitPath ==
    \E up \in Forests :
        /\ heap = ForestHeap(up)
        /\ recv = NilNode
        /\ incoming = <<>>
        /\ ucalls = 0
        /\ uret = NoReturn
        /\ before = heap
        /\ pfrom = NilNode
        /\ pto = NilNode
        /\ presult = EmptyStr
        /\ validated = {}
        /\ vw = <<>>
        /\ vcount = 0
        /\ okProbed = {}
        /\ marked = {}
        /\ mux = Unlocked
        /\ gh = NoCall
        /\ gi = NoCall
        /\ rs = NoCall

\* the process has not been stopped by a fatal error
Running == presult # StackOverflow

\* n.SetParentsDownwards() on any node of the forest
CallSetParentsDownwards(n) ==
    /\ Running
    /\ heap' = SetParentsDownwards(heap, n)
    /\ pfrom' = NilNode
    /\ pto' = NilNode
    /\ presult' = EmptyStr
    /\ UNCHANGED <<unionVars, validatorVars, fileVars>>

\* n.SetParent(node) with nil or any node: the node that holds n, one
\* that does not, a node n holds, n itself
CallSetParent(n, node) ==
    /\ Running
    /\ heap' = SetParent(heap, n, node)
    /\ pfrom' = NilNode
    /\ pto' = NilNode
    /\ presult' = EmptyStr
    /\ UNCHANGED <<unionVars, validatorVars, fileVars>>

\* api.SortNodesByName(node)
CallSortNodesByName(node) ==
    /\ Running
    /\ heap' \in SortNodesByName(heap, node)
    /\ pfrom' = NilNode
    /\ pto' = NilNode
    /\ presult' = EmptyStr
    /\ UNCHANGED <<unionVars, validatorVars, fileVars>>

\* from.RelativePath(to)
CallRelativePath(from, to) ==
    /\ Running
    /\ presult' = relativePath(heap, from, to)
    /\ pfrom' = from
    /\ pto' = to
    /\ UNCHANGED <<heap, unionVars, validatorVars, fileVars>>

NextPath ==
    \/ \E n \in DOMAIN heap : CallSetParentsDownwards(n)
    \/ \E n \in DOMAIN heap : \E node \in {NilNode} \cup DOMAIN heap :
          CallSetParent(n, node)
    \/ \E node \in DOMAIN heap : CallSortNodesByName(node)
    \/ \E from, to \in DOMAIN heap : CallRelativePath(from, to)

SpecPath == InitPath /\ [][NextPath]_vars

----------------------------------------------------------------------------
(* Link validator: ValidatorWorker.Validate, doValidation, linkSet *)

\* strings.Contains(str, sub)
Contains(str, sub) ==
    \E i \in 0..(Len(str) - Len(sub)) :
        \A j \in 1..Len(sub) : str[i + j] = sub[j]

\* strings.LastIndexByte(s, c), counted from 1; 0 when c is not in s
LastIndexByte(s, c) ==
    IF \E i \in 1..Len(s) : s[i] = c
    THEN CHOOSE i \in 1..Len(s) :
             s[i] = c /\ \A j \in (i + 1)..Len(s) : s[j] # c
    ELSE 0

Digits == {"0", "1", "2", "3", "4", "5", "6", "7", "8", "9"}

\* net/url validOptionalPort: port is "" or ":" followed by digits only
validOptionalPort(port) ==
    \/ port = EmptyStr
    \/ port[1] = ":" /\ \A i \in 2..Len(port) : port[i] \in Digits

\* net/url splitHostPort: the text after the last ":" is cut off when it is
\* a valid optional port, then the square brackets of an IPv6 literal are
\* stripped
splitHostPort(hostPort) ==
    LET colon == LastIndexByte(hostPort, ":")
        cut == colon # 0 /\ validOptionalPort(SubSeq(hostPort, colon, Len(hostPort)))
        host == IF cut THEN SubSeq(hostPort, 1, colon - 1) ELSE hostPort
        port == IF cut THEN SubSeq(hostPort, colon + 1, Len(hostPort)) ELSE EmptyStr
        bracketed == Len(host) >= 2 /\ host[1] = "[" /\ host[Len(host)] = "]"
    IN  [host |-> IF bracketed THEN SubSeq(host, 2, Len(host) - 1) ELSE host,
         port |-> port]

\* (*url.URL).Hostname()
Hostname(u) == splitHostPort(u.Host).host

\* the bytes net/url never escapes: 'a' to 'z', 'A' to 'Z', '0' to '9'
AlphaNum ==
    Digits \cup
    {"a", "b", "c", "d", "e", "f", "g", "h", "i", "j", "k", "l", "m", "n",
     "o", "p", "q", "r", "s", "t", "u", "v", "w", "x", "y", "z"} \cup
    {"A", "B", "C", "D", "E", "F", "G", "H", "I", "J", "K", "L", "M", "N",
     "O", "P", "Q", "R", "S", "T", "U", "V", "W", "X", "Y", "Z"}

\* net/url shouldEscape(c, mode) for the modes String() uses: "host",
\* "path", "user" and "fragment"
shouldEscape(c, mode) ==
    IF c \in AlphaNum THEN FALSE
    ELSE IF mode = "host"
              /\ c \in {"!", "$", "&", "'", "(", ")", "*", "+", ",", ";", "=",
                        ":", "[", "]", "<", ">", "\""}
    THEN FALSE
    ELSE IF c \in {"-", "_", ".", "~"} THEN FALSE
    ELSE IF c \in {"$", "&", "+", ",", "/", ":", ";", "=", "?", "@"}
              /\ mode \in {"path", "user", "fragment"}
    THEN CASE mode = "path" -> c = "?"
           [] mode = "user" -> c \in {"@", "/", "?", ":"}
           [] mode = "fragment" -> FALSE
    ELSE IF mode = "fragment" /\ c \in {"!", "(", ")", "*"} THEN FALSE
    ELSE TRUE

\* net/url upperhex
upperhex ==
    <<"0", "1", "2", "3", "4", "5", "6", "7", "8", "9",
      "A", "B", "C", "D", "E", "F">>

\* "%" and the two upper-case hexadecimal digits of every byte
RECURSIVE PercentEncodedBytes(_)
PercentEncodedBytes(bytes) ==
    IF bytes = <<>> THEN EmptyStr
    ELSE <<"%", upperhex[(Head(bytes) \div 16) + 1],
           upperhex[(Head(bytes) % 16) + 1]>>
             \o PercentEncodedBytes(Tail(bytes))

\* the percent encoding of the bytes of the character c
PercentEncoded(c) == PercentEncodedBytes(BytesOf(c))

\* net/url escape(s, mode): every byte that shouldEscape names is replaced
\* by its percent encoding
RECURSIVE escape(_, _)
escape(s, mode) ==
    IF s = EmptyStr THEN EmptyStr
    ELSE (IF shouldEscape(s[1], mode) THEN PercentEncoded(s[1]) ELSE <<s[1]>>)
             \o escape(Tail(s), mode)

\* (*url.URL).EscapedPath() of a URL without RawPath
EscapedPath(u) ==
    IF u.Path = <<"*">> THEN u.Path ELSE escape(u.Path, "path")

\* the first segment of the path, up to its first "/"
FirstSegment(path) ==
    IF \E i \in 1..Len(path) : path[i] = "/"
    THEN SubSeq(path, 1,
                (CHOOSE i \in 1..Len(path) :
                    path[i] = "/" /\ \A j \in 1..(i - 1) : path[j] # "/") - 1)
    ELSE path

\* (*url.URL).String() of a URL without Opaque, RawPath and RawFragment:
\* scheme, "//", user info, escaped host, escaped path (made absolute when
\* there is a host, preceded by "./" when nothing was written before it and
\* its first segment holds a colon), query and escaped fragment
URLString(u) ==
    LET scheme == IF u.Scheme # EmptyStr THEN u.Scheme \o <<":">> ELSE EmptyStr
        authority ==
            IF u.Scheme # EmptyStr \/ u.Host # EmptyStr \/ u.User # EmptyStr
            THEN (IF u.Host # EmptyStr \/ u.Path # EmptyStr \/ u.User # EmptyStr
                  THEN <<"/", "/">> ELSE EmptyStr)
                 \o (IF u.User # EmptyStr
                     THEN escape(u.User, "user") \o <<"@">> ELSE EmptyStr)
                 \o escape(u.Host, "host")
            ELSE EmptyStr
        escaped == EscapedPath(u)
        slash == IF escaped # EmptyStr /\ escaped[1] # "/" /\ u.Host # EmptyStr
                 THEN <<"/">> ELSE EmptyStr
        dotSlash == IF scheme \o authority \o slash = EmptyStr
                         /\ Contains(FirstSegment(escaped), <<":">>)
                    THEN <<".", "/">> ELSE EmptyStr
        query == IF u.RawQuery # EmptyStr THEN <<"?">> \o u.RawQuery ELSE EmptyStr
        fragment == IF u.Fragment # EmptyStr
                    THEN <<"#">> \o escape(u.Fragment, "fragment") ELSE EmptyStr
    IN  scheme \o authority \o slash \o dotSlash \o escaped \o query \o fragment

Localhost == <<"l", "o", "c", "a", "l", "h", "o", "s", "t">>
Loopback == <<"1", "2", "7", ".", "0", ".", "0", ".", "1">>
SampleIP == <<"1", ".", "2", ".", "3", ".", "4">>
FooBar == <<"f", "o", "o", ".", "b", "a", "r">>

\* the sample-host test made on Host, port included, and not on Hostname()
IsSampleHostWithPort(u) ==
    LET host == u.Host
    IN  host = Localhost \/ host = Loopback \/ host = SampleIP
            \/ Contains(host, FooBar)

\* Validate: "ignore sample hosts e.g. localhost"
IsSampleHost(u) ==
    LET host == Hostname(u)
    IN  host = Localhost \/ host = Loopback \/ host = SampleIP
            \/ Contains(host, FooBar)

\* the link with its query, fragment and user info kept in the key
UnifiedURLWithQuery(u) == URLString(u)

\* Validate: "unify links destination by excluding query, fragment & user
\* info"; the key of the validated set
UnifiedURL(u) ==
    URLString([Scheme |-> u.Scheme, Host |-> u.Host, Path |-> u.Path,
               User |-> EmptyStr, RawQuery |-> EmptyStr,
               Fragment |-> EmptyStr])

\* func (l *linkSet) exist(dest string) bool
exist(set, dest) == dest \in set

\* func (l *linkSet) add(dest string)
add(set, dest) == set \cup {dest}

\* what client.Do returns: a response with a status code and possibly a
\* Retry-After header, or an error (a transport failure, or the context's
\* error once the context is done)
StatusCodes == {200, 401, 403, 404, 429}
StatusTooManyRequests == 429
StatusForbidden == 403
StatusUnauthorized == 401

\* resp.Header.Get("Retry-After"): "" when absent, a number of seconds, or
\* text that strconv.Atoi rejects
NoRetryAfter == [hdr |-> "absent", after |-> 0]
RetryAfterSeconds(n) == [hdr |-> "seconds", after |-> n]
RetryAfterDate == [hdr |-> "other", after |-> 0]
RetryAfters == {NoRetryAfter, RetryAfterSeconds(2), RetryAfterSeconds(301),
                RetryAfterDate}

Response(status, retryAfter) ==
    [err |-> "none", status |-> status, retryAfter |-> retryAfter]
Responses ==
    {Response(st, NoRetryAfter) : st \in StatusCodes}
        \cup {Response(StatusTooManyRequests, h) : h \in RetryAfters}
TransportError == [err |-> "transport", status |-> 0, retryAfter |-> NoRetryAfter]
ContextError == [err |-> "context", status |-> 0, retryAfter |-> NoRetryAfter]
ClientResults == Responses \cup {TransportError, ContextError}

\* doValidation: intervals := []int{1, 5, 10, 20}
intervals == <<1, 5, 10, 20>>

\* doValidation: the seconds slept before the retry number attempts+1;
\* jitter is rand.Intn(attempts+1); a Retry-After in seconds of at most
\* 5 minutes overwrites the computed time
SleepSeconds(attempts, jitter, resp) ==
    IF resp.retryAfter.hdr = "seconds" /\ resp.retryAfter.after <= 5 * 60
    THEN resp.retryAfter.after
    ELSE intervals[attempts + 1] + jitter

\* the test of the status with 401 and 403 not excepted
IsErrorStatusAny(status) == status >= 400

\* Validate: the status sends the link to the GET retry, or to the warning
\* after it
IsErrorStatus(status) ==
    status >= 400 /\ status # StatusForbidden /\ status # StatusUnauthorized

\* the call of one caller: pc is "idle" before the first call, "rlock"
\* before exist takes the read lock, "exist" while it holds it, "do" when
\* a client.Do is about to return, "sleep" in the 429 backoff, "add" before
\* add takes the write lock, "adding" while it holds it, "returned" after
\* the return; retry tells the loop's client.Do from the first one,
\* attempts is doValidation's counter, sleep the seconds of the backoff in
\* progress, nreq counts the requests of the call, ret is "nil" or "error",
\* dup tells whether a call for the same scheme, host and path had returned
\* after validated.add when this call started, log lists the requests of
\* the call with what client.Do returned, setBefore is the validated set as
\* it was when the call started, missed tells that exist returned false,
\* cancelledAt is the number of requests made when the context was cancelled
IdleCall ==
    [pc |-> "idle", url |-> <<>>, ctxDone |-> FALSE, method |-> "",
     retry |-> FALSE, attempts |-> 0, nreq |-> 0, ret |-> "",
     warned |-> FALSE, registryGet |-> FALSE, dup |-> FALSE,
     sleep |-> 0, log |-> <<>>, setBefore |-> {}, missed |-> FALSE,
     cancelledAt |-> 0]

HTTP == <<"h", "t", "t", "p">>
HTTPS == <<"h", "t", "t", "p", "s">>

Link(scheme, user, host, path, query, fragment, ok) ==
    [Scheme |-> scheme, User |-> user, Host |-> host, Path |-> path,
     RawQuery |-> query, Fragment |-> fragment, parses |-> ok]

\* the links handed to Validate; parses tells whether
\* http.NewRequestWithContext accepts the link's string
Links ==
    {Link(HTTPS, <<>>, <<"h">>, <<"/", "x">>, <<>>, <<>>, TRUE),
     Link(HTTPS, <<>>, <<"h">>, <<"/", "x">>, <<"q">>, <<>>, TRUE),
     Link(HTTPS, <<>>, <<"h">>, <<"/", "x">>, <<>>, <<"f">>, TRUE),
     Link(HTTPS, <<"u">>, <<"h">>, <<"/", "x">>, <<>>, <<>>, TRUE),
     Link(HTTP, <<>>, <<"h">>, <<"/", "x">>, <<>>, <<>>, TRUE),
     Link(HTTPS, <<>>, <<"h">>, <<"/", "y">>, <<>>, <<>>, TRUE),
     Link(HTTPS, <<>>, <<"g">>, <<"/", "x">>, <<>>, <<>>, TRUE),
     Link(HTTPS, <<>>, <<"h", " ">>, <<"/", "x">>, <<>>, <<>>, FALSE),
     Link(HTTPS, <<>>, Localhost \o <<":", "8">>, <<"/", "x">>, <<>>, <<>>, TRUE),
     Link(HTTP, <<>>, <<"x", ".">> \o FooBar, <<"/", "x">>, <<"q">>, <<>>, TRUE),
     Link(HTTP, <<>>, Localhost, <<"/", "x">>, <<>>, <<>>, TRUE),
     Link(HTTP, <<>>, Loopback, <<"/", "x">>, <<>>, <<>>, TRUE),
     Link(HTTPS, <<>>, SampleIP, <<>>, <<>>, <<>>, TRUE),
     Link(HTTP, <<>>, FooBar \o <<".", "t">>, <<"/", "x">>, <<>>, <<>>, TRUE),
     Link(HTTPS, <<>>, <<"h">>, <<"/", "a", " ", "b">>, <<>>, <<>>, TRUE),
     Link(HTTPS, <<>>, <<"h">>, <<"/", "R", ".", "m", "d">>, <<>>, <<>>, TRUE),
     Link(HTTP, <<>>, Localhost \o <<":", "x">>, <<"/", "x">>, <<>>, <<>>, FALSE),
     Link(HTTP, <<>>, <<"[", ":", ":", "1", "]", ":", "8">>, <<"/", "x">>, <<>>, <<>>, TRUE),
     Link(HTTP, <<>>, <<"[", "f", "e", "8", "0", ":", ":", "1", "%">> \o FooBar \o <<"]">>,
          <<"/", "x">>, <<>>, <<>>, TRUE)}

\* the same scheme, host and path
SameResource(u1, u2) ==
    u1.Scheme = u2.Scheme /\ u1.Host = u2.Host /\ u1.Path = u2.Path

\* Validate up to v.validated.exist: a sample host returns nil at once
StartValidate(w, link) ==
    /\ vw[w].pc \in {"idle", "returned"}
    /\ vcount' = vcount + 1
    /\ LET call == [IdleCall EXCEPT
                       !.url = link,
                       !.setBefore = validated,
                       !.dup = \E m \in marked : SameResource(m, link)]
       IN  IF IsSampleHost(link)
           THEN vw' = [vw EXCEPT ![w] =
                          [call EXCEPT !.pc = "returned", !.ret = "nil"]]
           ELSE vw' = [vw EXCEPT ![w] = [call EXCEPT !.pc = "rlock"]]
    /\ UNCHANGED <<validated, okProbed, marked, mux>>

\* exist: l.mux.RLock(), which waits while a writer holds the lock
ExistRLock(w) ==
    /\ vw[w].pc = "rlock"
    /\ mux.writer = {}
    /\ mux' = [mux EXCEPT !.readers = @ \cup {w}]
    /\ vw' = [vw EXCEPT ![w] = [@ EXCEPT !.pc = "exist"]]
    /\ UNCHANGED <<validated, vcount, okProbed, marked>>

\* exist reads the set and releases the read lock; Validate returns nil for
\* a link found in the set, and otherwise goes on to the handler registry
\* lookup and the HEAD request
ExistRUnlock(w) ==
    /\ vw[w].pc = "exist"
    /\ mux' = [mux EXCEPT !.readers = @ \ {w}]
    /\ LET call == vw[w]
           link == call.url
       IN  IF exist(validated, UnifiedURL(link))
           THEN vw' = [vw EXCEPT ![w] =
                          [call EXCEPT !.pc = "returned", !.ret = "nil"]]
           ELSE IF ~link.parses
           THEN vw' = [vw EXCEPT ![w] =
                          [call EXCEPT !.pc = "returned", !.ret = "error",
                                       !.missed = TRUE,
                                       !.registryGet = TRUE]]
           ELSE vw' = [vw EXCEPT ![w] =
                          [call EXCEPT !.pc = "do", !.method = "HEAD",
                                       !.missed = TRUE,
                                       !.registryGet = TRUE]]
    /\ UNCHANGED <<validated, vcount, okProbed, marked>>

\* Validate after doValidation returned r: a warning on an error, the GET
\* retry after a HEAD with an error status, a warning after a GET with an
\* error status, and validated.add next in every case.  The GET request is
\* built from the string and context the HEAD request was built from, so
\* http.NewRequestWithContext does not fail for it.
AfterValidation(c, r) ==
    IF r.err # "none"
    THEN [c EXCEPT !.pc = "add", !.warned = TRUE]
    ELSE IF IsErrorStatus(r.status)
    THEN IF c.method = "HEAD"
         THEN [c EXCEPT !.pc = "do", !.method = "GET", !.attempts = 0,
                        !.retry = FALSE]
         ELSE [c EXCEPT !.pc = "add", !.warned = TRUE]
    ELSE [c EXCEPT !.pc = "add"]

\* the loop condition of doValidation with every entry of intervals usable
RetryAllowedFullSchedule(status, attempts) ==
    status = StatusTooManyRequests /\ attempts < Len(intervals)

\* the loop condition of doValidation
RetryAllowed(status, attempts) ==
    status = StatusTooManyRequests /\ attempts < Len(intervals) - 1

\* doValidation after client.Do returned r: an error is returned at once;
\* a retry's response counts as an attempt; a 429 is retried after a sleep
\* while the loop condition holds; any other response is returned
AfterClientDo(c, r, jitter) ==
    IF r.err # "none" THEN AfterValidation(c, r)
    ELSE LET attempts == IF c.retry THEN c.attempts + 1 ELSE c.attempts
             c1 == [c EXCEPT !.attempts = attempts]
         IN  IF RetryAllowed(r.status, attempts)
             THEN [c1 EXCEPT !.pc = "sleep",
                             !.sleep = SleepSeconds(attempts, jitter, r)]
             ELSE AfterValidation(c1, r)

\* client.Do(req) returns r inside doValidation (the first attempt, or the
\* attempt after a backoff sleep); once the context of the call is done the
\* request fails with the context's error
ClientDo(w, r) ==
    /\ vw[w].pc = "do"
    /\ r \in ClientResults
    /\ (r = ContextError) <=> vw[w].ctxDone
    /\ \E jitter \in 0..(Len(intervals) - 1) :
          LET c == vw[w]
              attempts == IF c.retry THEN c.attempts + 1 ELSE c.attempts
              sent == [c EXCEPT
                          !.nreq = @ + 1,
                          !.log = Append(@, [method |-> c.method,
                                             retry |-> c.retry,
                                             err |-> r.err,
                                             status |-> r.status])]
          IN  /\ jitter <= attempts
              /\ vw' = [vw EXCEPT ![w] = AfterClientDo(sent, r, jitter)]
    /\ okProbed' = IF r.err = "none" /\ ~IsErrorStatus(r.status)
                   THEN okProbed \cup {UnifiedURL(vw[w].url)}
                   ELSE okProbed
    /\ UNCHANGED <<validated, vcount, marked, mux>>

\* time.Sleep(...) in doValidation ends; client.Do(req) is next
BackoffSleep(w) ==
    /\ vw[w].pc = "sleep"
    /\ vw' = [vw EXCEPT ![w] = [@ EXCEPT !.pc = "do", !.retry = TRUE,
                                         !.sleep = 0]]
    /\ UNCHANGED <<validated, vcount, okProbed, marked, mux>>

\* add: l.mux.Lock() with the readers' hold on the lock ignored
AddLockIgnoringReaders(w) ==
    /\ vw[w].pc = "add"
    /\ mux.writer = {}
    /\ mux' = [mux EXCEPT !.writer = {w}]
    /\ vw' = [vw EXCEPT ![w] = [@ EXCEPT !.pc = "adding"]]
    /\ UNCHANGED <<validated, vcount, okProbed, marked>>

\* add: l.mux.Lock(), which waits while a reader or a writer holds the lock
AddLock(w) ==
    /\ vw[w].pc = "add"
    /\ mux.writer = {}
    /\ mux.readers = {}
    /\ mux' = [mux EXCEPT !.writer = {w}]
    /\ vw' = [vw EXCEPT ![w] = [@ EXCEPT !.pc = "adding"]]
    /\ UNCHANGED <<validated, vcount, okProbed, marked>>

\* add writes l.set[dest] and releases the lock; return nil
AddValidated(w) ==
    /\ vw[w].pc = "adding"
    /\ validated' = add(validated, UnifiedURL(vw[w].url))
    /\ marked' = marked \cup {vw[w].url}
    /\ mux' = [mux EXCEPT !.writer = @ \ {w}]
    /\ vw' = [vw EXCEPT ![w] = [@ EXCEPT !.pc = "returned", !.ret = "nil"]]
    /\ UNCHANGED <<vcount, okProbed>>

\* the caller's context is cancelled (or its deadline passes) during a call
CancelContext(w) ==
    /\ vw[w].pc \in {"do", "sleep"}
    /\ ~vw[w].ctxDone
    /\ vw' = [vw EXCEPT ![w] = [@ EXCEPT !.ctxDone = TRUE,
                                         !.cancelledAt = Len(vw[w].log)]]
    /\ UNCHANGED <<validated, vcount, okProbed, marked, mux>>

----------------------------------------------------------------------------
(* SpecValidate: one caller makes up to MaxValidateCalls Validate calls,   *)
(* one after the other, on a new ValidatorWorker.                          *)

SequentialCallers == {1}

InitValidate ==
    /\ heap = <<>>
    /\ recv = NilNode
    /\ incoming = <<>>
    /\ ucalls = 0
    /\ uret = NoReturn
    /\ before = <<>>
    /\ pfrom = NilNode
    /\ pto = NilNode
    /\ presult = EmptyStr
    /\ validated = {}
    /\ vw = [w \in SequentialCallers |-> IdleCall]
    /\ vcount = 0
    /\ okProbed = {}
    /\ marked = {}
    /\ mux = Unlocked
    /\ gh = NoCall
    /\ gi = NoCall
    /\ rs = NoCall

NextValidate ==
    \/ \E w \in DOMAIN vw : \E link \in Links :
          /\ vcount < MaxValidateCalls
          /\ StartValidate(w, link)
          /\ UNCHANGED <<heap, unionVars, pathVars, fileVars>>
    \/ \E w \in DOMAIN vw :
          ExistRLock(w) /\ UNCHANGED <<heap, unionVars, pathVars, fileVars>>
    \/ \E w \in DOMAIN vw :
          ExistRUnlock(w) /\ UNCHANGED <<heap, unionVars, pathVars, fileVars>>
    \/ \E w \in DOMAIN vw :
          \E r \in ClientResults :
              ClientDo(w, r) /\ UNCHANGED <<heap, unionVars, pathVars, fileVars>>
    \/ \E w \in DOMAIN vw :
          BackoffSleep(w) /\ UNCHANGED <<heap, unionVars, pathVars, fileVars>>
    \/ \E w \in DOMAIN vw :
          AddLock(w) /\ UNCHANGED <<heap, unionVars, pathVars, fileVars>>
    \/ \E w \in DOMAIN vw :
          AddValidated(w) /\ UNCHANGED <<heap, unionVars, pathVars, fileVars>>
    \/ \E w \in DOMAIN vw :
          CancelContext(w) /\ UNCHANGED <<heap, unionVars, pathVars, fileVars>>

SpecValidate == InitValidate /\ [][NextValidate]_vars

----------------------------------------------------------------------------
(* SpecConcurrent: two callers make up to MaxConcurrentCalls Validate      *)
(* calls on one ValidatorWorker, their steps interleaved in every order.   *)
(* Every call in progress keeps taking steps: client.Do returns (with a    *)
(* response or an error), a sleep ends, and a lock that stays free is      *)
(* taken.                                                                  *)

ConcurrentCallers == {1, 2}

\* the links of the concurrent callers: one resource under two spellings,
\* and another resource
ConcurrentLinks ==
    {Link(HTTPS, <<>>, <<"h">>, <<"/", "x">>, <<>>, <<>>, TRUE),
     Link(HTTPS, <<>>, <<"h">>, <<"/", "x">>, <<"q">>, <<>>, TRUE),
     Link(HTTPS, <<>>, <<"h">>, <<"/", "y">>, <<>>, <<>>, TRUE)}

InitConcurrent ==
    /\ heap = <<>>
    /\ recv = NilNode
    /\ incoming = <<>>
    /\ ucalls = 0
    /\ uret = NoReturn
    /\ before = <<>>
    /\ pfrom = NilNode
    /\ pto = NilNode
    /\ presult = EmptyStr
    /\ validated = {}
    /\ vw = [w \in ConcurrentCallers |-> IdleCall]
    /\ vcount = 0
    /\ okProbed = {}
    /\ marked = {}
    /\ mux = Unlocked
    /\ gh = NoCall
    /\ gi = NoCall
    /\ rs = NoCall

\* what client.Do returns to the concurrent callers: success, or 429 with
\* Retry-After: 2
ConcurrentResults ==
    {Response(200, NoRetryAfter),
     Response(StatusTooManyRequests, RetryAfterSeconds(2))}

\* one step of the call in progress of caller w
ConcurrentStep(w) ==
    \/ ExistRLock(w)
    \/ ExistRUnlock(w)
    \/ \E r \in ConcurrentResults : ClientDo(w, r)
    \/ BackoffSleep(w)
    \/ AddLock(w)
    \/ AddValidated(w)

NextConcurrent ==
    \/ \E w \in ConcurrentCallers : \E link \in ConcurrentLinks :
          /\ vcount < MaxConcurrentCalls
          /\ StartValidate(w, link)
          /\ UNCHANGED <<heap, unionVars, pathVars, fileVars>>
    \/ \E w \in ConcurrentCallers :
          ExistRLock(w) /\ UNCHANGED <<heap, unionVars, pathVars, fileVars>>
    \/ \E w \in ConcurrentCallers :
          ExistRUnlock(w) /\ UNCHANGED <<heap, unionVars, pathVars, fileVars>>
    \/ \E w \in ConcurrentCallers :
          \E r \in ConcurrentResults :
              ClientDo(w, r) /\ UNCHANGED <<heap, unionVars, pathVars, fileVars>>
    \/ \E w \in ConcurrentCallers :
          BackoffSleep(w) /\ UNCHANGED <<heap, unionVars, pathVars, fileVars>>
    \/ \E w \in ConcurrentCallers :
          AddLock(w) /\ UNCHANGED <<heap, unionVars, pathVars, fileVars>>
    \/ \E w \in ConcurrentCallers :
          AddValidated(w) /\ UNCHANGED <<heap, unionVars, pathVars, fileVars>>

\* a call in progress keeps taking steps
SpecConcurrent ==
    /\ InitConcurrent
    /\ [][NextConcurrent]_vars
    /\ \A w \in ConcurrentCallers :
          WF_vars(ConcurrentStep(w) /\ UNCHANGED <<heap, unionVars, pathVars, fileVars>>)

----------------------------------------------------------------------------
(* pkg/reactor/github.go: GitHubWorker.Work and createBlobFromTask, and    *)
(* FSWriter.Write, run by the workers of a pool on one file system.        *)
(* A path is the sequence of its segments; the file system is the set of   *)
(* its directories (the working directory <<>> among them) and a function  *)
(* from the paths of its files to their bytes.                             *)
(* Paths are relative to the working directory.                            *)

NoErr == ""

\* filepath.Clean of a relative path, segment by segment: "." is dropped,
\* ".." removes the segment before it, and stays when there is none or when
\* that one is ".." too
RECURSIVE Clean(_, _)
Clean(segments, out) ==
    IF segments = <<>> THEN out
    ELSE IF Head(segments) = "." THEN Clean(Tail(segments), out)
    ELSE IF Head(segments) = ".." /\ out # <<>> /\ out[Len(out)] # ".."
    THEN Clean(Tail(segments), SubSeq(out, 1, Len(out) - 1))
    ELSE Clean(Tail(segments), Append(out, Head(segments)))

\* filepath.Join(a, b): the elements joined and the result cleaned
PathJoin(a, b) == Clean(a \o b, <<>>)

\* filepath.Dir(path); "." is <<>>
PathDir(path) == IF Len(path) = 0 THEN <<>> ELSE SubSeq(path, 1, Len(path) - 1)

\* the paths of which path is a proper extension
ProperPrefixes(path) == {SubSeq(path, 1, k) : k \in 0..(Len(path) - 1)}

\* os.Stat(path): the path is a directory, a file, does not exist, or
\* cannot be looked up (a segment of it is a file, or access is denied)
Stat(fs, path, denied) ==
    IF denied THEN "error"
    ELSE IF \E q \in ProperPrefixes(path) : q \in DOMAIN fs.files THEN "error"
    ELSE IF path \in fs.dirs THEN "dir"
    ELSE IF path \in DOMAIN fs.files THEN "file"
    ELSE "notexist"

\* os.Mkdir(path, os.ModePerm): the directory is made when nothing has its
\* name and its parent is a directory
Mkdir(fs, path, denied) ==
    IF denied THEN [fs |-> fs, err |-> "permission denied"]
    ELSE IF path \in fs.dirs \/ path \in DOMAIN fs.files
    THEN [fs |-> fs, err |-> "file exists"]
    ELSE IF \E q \in ProperPrefixes(path) : q \in DOMAIN fs.files
    THEN [fs |-> fs, err |-> "not a directory"]
    ELSE IF PathDir(path) \notin fs.dirs
    THEN [fs |-> fs, err |-> "no such file or directory"]
    ELSE [fs |-> [fs EXCEPT !.dirs = @ \cup {path}], err |-> NoErr]

\* the file system with data as the bytes of the file at path
PutFile(fs, path, data) ==
    [fs EXCEPT !.files =
        [q \in DOMAIN fs.files \cup {path} |->
            IF q = path THEN data ELSE fs.files[q]]]

\* os.OpenFile(path, O_WRONLY|O_CREATE|O_TRUNC, 0644): the file is created
\* empty, or emptied when it exists
OpenFile(fs, path, denied) ==
    IF denied THEN [fs |-> fs, err |-> "permission denied"]
    ELSE IF \E q \in ProperPrefixes(path) : q \in DOMAIN fs.files
    THEN [fs |-> fs, err |-> "not a directory"]
    ELSE IF path \in fs.dirs THEN [fs |-> fs, err |-> "is a directory"]
    ELSE IF PathDir(path) \notin fs.dirs
    THEN [fs |-> fs, err |-> "no such file or directory"]
    ELSE [fs |-> PutFile(fs, path, <<>>), err |-> NoErr]

\* f.Write(data) on a file just opened, of which n bytes reach the file:
\* they replace its first n bytes
FileWrite(fs, path, data, n) ==
    PutFile(fs, path,
            SubSeq(data, 1, n)
                \o SubSeq(fs.files[path], n + 1, Len(fs.files[path])))

\* fmt.Errorf("not 200 status code returned, but %d. Failed to get file
\* tree", response.StatusCode)
StatusError(status) ==
    "not 200 status code returned, but " \o ToString(status)
        \o ". Failed to get file tree"

\* the file at path as a call finds it when it returns
FileAt(fs, path) ==
    IF path \in DOMAIN fs.files
    THEN [exists |-> TRUE, bytes |-> fs.files[path]]
    ELSE [exists |-> FALSE, bytes |-> <<>>]

\* what client.Git.GetBlobRaw returned to a call that has not fetched
NoGet == [err |-> NoErr, status |-> 0, blob |-> <<>>]

\* a worker of the pool that runs no call: kind tells the call (Work on a
\* *GitHubTask, Work on another task, FSWriter.Write), pc its position, dir
\* the directory it looks up and makes, filePath the file it writes, blob
\* the bytes, level the element of dir os.MkdirAll is at, pending the error
\* of a file system call kept for later, ret what the call returned; mkdir,
\* write, oserr and atReturn tell how far the directory and write steps
\* got, the error of the file system call that failed, and the file at
\* filePath when the call returned
NoJob ==
    [kind |-> "none", pc |-> "idle", dir |-> <<>>, filePath |-> <<>>,
     blob |-> <<>>, level |-> 0, get |-> NoGet, pending |-> NoErr,
     ret |-> [isNil |-> TRUE, error |-> NoErr],
     mkdir |-> "notreached", write |-> "notreached", oserr |-> NoErr,
     atReturn |-> [exists |-> FALSE, bytes |-> <<>>]]

\* the call c returning err, with the file system fs
Return(c, err, fs) ==
    [c EXCEPT !.pc = "done",
              !.ret = [isNil |-> err = NoErr, error |-> err],
              !.atReturn = FileAt(fs, c.filePath)]

----------------------------------------------------------------------------
(* SpecGitHub: MaxPoolWorkers workers run one call each, Work or           *)
(* FSWriter.Write, step by step and interleaved, on one file system.       *)

PoolWorkers == 1..MaxPoolWorkers

OutDir == <<"o">>
SubDir == <<"d">>
FileName == <<"f">>

\* entry paths f, d/f, d/d/f, ... with up to MaxEntryDepth segments, and
\* the paths ../f and ./d/../f that filepath.Join rewrites
RECURSIVE EntryPathOfDepth(_)
EntryPathOfDepth(k) == IF k <= 1 THEN FileName ELSE SubDir \o EntryPathOfDepth(k - 1)
EntryPaths ==
    {EntryPathOfDepth(k) : k \in 1..MaxEntryDepth}
        \cup {<<"..">> \o FileName, <<".">> \o SubDir \o <<"..">> \o FileName}

GitHubTasks == [parentDir : {OutDir}, entryPath : EntryPaths]

Blob1 == <<"x", "y">>
DocBlob == <<"z">>
OldBytes == <<"o", "l", "d">>

\* what client.Git.GetBlobRaw returns: the blob with status 200, a 2xx
\* answer other than 200 and 202, or an error (202, for which the client
\* returns *github.AcceptedError, an error answer of the server, the
\* deadline of the context, its cancellation)
GetBlobRawResults ==
    {[err |-> NoErr, status |-> 200, blob |-> Blob1],
     [err |-> NoErr, status |-> 200, blob |-> <<>>]}
    \cup
    {[err |-> NoErr, status |-> st, blob |-> <<>>] : st \in {201, 203, 204, 206}}
    \cup
    {[err |-> "job scheduled on GitHub side; try again later",
      status |-> 202, blob |-> <<>>],
     [err |-> "GET url: 500", status |-> 500, blob |-> <<>>],
     [err |-> "context deadline exceeded", status |-> 0, blob |-> <<>>],
     [err |-> "context canceled", status |-> 0, blob |-> <<>>]}

\* the arguments of FSWriter.Write, of a writer with Root o: the file f in
\* the root or in d, with some bytes or none
WriteArguments ==
    [name : {FileName}, path : {<<>>, SubDir}, docBlob : {DocBlob, <<>>}]

NoFiles == [q \in {} |-> <<>>]

\* file systems before the calls: empty, with the output directory, with
\* its directory d, with the output directory being a file, with an older
\* file at o/f, with a directory at o/f
FileSystems ==
    {[dirs |-> {<<>>}, files |-> NoFiles],
     [dirs |-> {<<>>, OutDir}, files |-> NoFiles],
     [dirs |-> {<<>>, OutDir, OutDir \o SubDir}, files |-> NoFiles],
     [dirs |-> {<<>>}, files |-> [q \in {OutDir} |-> OldBytes]],
     [dirs |-> {<<>>, OutDir},
      files |-> [q \in {OutDir \o FileName} |-> OldBytes]],
     [dirs |-> {<<>>, OutDir, OutDir \o FileName}, files |-> NoFiles]}

InitGitHub ==
    /\ heap = <<>>
    /\ recv = NilNode
    /\ incoming = <<>>
    /\ ucalls = 0
    /\ uret = NoReturn
    /\ before = <<>>
    /\ pfrom = NilNode
    /\ pto = NilNode
    /\ presult = EmptyStr
    /\ validated = {}
    /\ vw = <<>>
    /\ vcount = 0
    /\ okProbed = {}
    /\ marked = {}
    /\ mux = Unlocked
    /\ \E fs \in FileSystems :
          gh = [fs |-> fs, fsBefore |-> fs, opened |-> {},
                workers |-> [w \in PoolWorkers |-> NoJob]]
    /\ gi = NoCall
    /\ rs = NoCall

\* the worker w goes on as c with the file system fs
Continue(w, c, fs) ==
    /\ gh' = [gh EXCEPT !.workers[w] = c, !.fs = fs]
    /\ UNCHANGED <<heap, unionVars, pathVars, validatorVars, gi, rs>>

\* Work on a task that is not a *GitHubTask: nil
WorkOtherTask(w) ==
    /\ gh.workers[w].pc = "idle"
    /\ Continue(w, Return([NoJob EXCEPT !.kind = "other"], NoErr, gh.fs),
                gh.fs)

\* Work on the *GitHubTask t up to the test of the status code: the
\* answer get of client.Git.GetBlobRaw, whose error or status ends the call
WorkGetBlobRaw(w, t, get) ==
    /\ gh.workers[w].pc = "idle"
    /\ LET filePath == PathJoin(t.parentDir, t.entryPath)
           c == [NoJob EXCEPT !.kind = "work", !.filePath = filePath,
                              !.dir = PathDir(filePath), !.get = get,
                              !.blob = get.blob]
       IN  IF get.err # NoErr THEN Continue(w, Return(c, get.err, gh.fs), gh.fs)
           ELSE IF get.status # 200
           THEN Continue(w, Return(c, StatusError(get.status), gh.fs), gh.fs)
           ELSE Continue(w, [c EXCEPT !.pc = "stat"], gh.fs)

\* FSWriter{Root: o}.Write(name, path, docBlob) up to the paths: nil for a
\* blob without bytes
FSWriterWrite(w, a) ==
    /\ gh.workers[w].pc = "idle"
    /\ LET dir == PathJoin(OutDir, a.path)
           c == [NoJob EXCEPT !.kind = "write", !.dir = dir,
                              !.filePath = PathJoin(dir, a.name),
                              !.blob = a.docBlob]
       IN  IF Len(a.docBlob) <= 0
           THEN Continue(w, Return([c EXCEPT !.filePath = <<>>, !.dir = <<>>],
                                   NoErr, gh.fs), gh.fs)
           ELSE Continue(w, [c EXCEPT !.pc = "stat"], gh.fs)

\* os.Stat(dir) and os.IsNotExist(err): MkdirAll is called for a directory
\* that does not exist, and skipped otherwise
StatDir(w, denied) ==
    /\ gh.workers[w].pc = "stat"
    /\ LET c == gh.workers[w]
       IN  IF Stat(gh.fs, c.dir, denied) = "notexist"
           THEN Continue(w, [c EXCEPT !.pc = "mkdirall.stat",
                                      !.level = Len(c.dir)], gh.fs)
           ELSE Continue(w, [c EXCEPT !.pc = "open", !.mkdir = "skipped"],
                         gh.fs)

\* the element of dir os.MkdirAll is at
MkdirAllPath(c) == SubSeq(c.dir, 1, c.level)

\* os.MkdirAll has made the element it is at, or found it: it returns to
\* the MkdirAll of the next element, which calls Mkdir, and with the last
\* element to the caller
MkdirAllReturnsNil(c) ==
    IF c.level = Len(c.dir) THEN [c EXCEPT !.pc = "open", !.mkdir = "ok"]
    ELSE [c EXCEPT !.pc = "mkdirall.mkdir", !.level = c.level + 1]

\* os.MkdirAll returns err, and the call with it
MkdirAllReturns(c, err, fs) ==
    Return([c EXCEPT !.mkdir = "failed", !.oserr = err], err, fs)

\* os.MkdirAll, the Stat of its fast path: a directory is done, a file is
\* an error, and otherwise MkdirAll is called for the parent, if any,
\* before Mkdir
MkdirAllStat(w, denied) ==
    /\ gh.workers[w].pc = "mkdirall.stat"
    /\ LET c == gh.workers[w]
           found == Stat(gh.fs, MkdirAllPath(c), denied)
       IN  IF found = "dir" THEN Continue(w, MkdirAllReturnsNil(c), gh.fs)
           ELSE IF found = "file"
           THEN Continue(w, MkdirAllReturns(c, "not a directory", gh.fs),
                         gh.fs)
           ELSE IF c.level > 1
           THEN Continue(w, [c EXCEPT !.level = c.level - 1], gh.fs)
           ELSE Continue(w, [c EXCEPT !.pc = "mkdirall.mkdir"], gh.fs)

\* os.MkdirAll, its Mkdir: after an error the directory is looked up
MkdirAllMkdir(w, denied) ==
    /\ gh.workers[w].pc = "mkdirall.mkdir"
    /\ LET c == gh.workers[w]
           made == Mkdir(gh.fs, MkdirAllPath(c), denied)
       IN  IF made.err = NoErr THEN Continue(w, MkdirAllReturnsNil(c), made.fs)
           ELSE Continue(w, [c EXCEPT !.pc = "mkdirall.lstat",
                                      !.pending = made.err], gh.fs)

\* os.MkdirAll, the Lstat after a failed Mkdir: a directory that is there
\* is no error
MkdirAllLstat(w, denied) ==
    /\ gh.workers[w].pc = "mkdirall.lstat"
    /\ LET c == gh.workers[w]
       IN  IF Stat(gh.fs, MkdirAllPath(c), denied) = "dir"
           THEN Continue(w, MkdirAllReturnsNil([c EXCEPT !.pending = NoErr]),
                         gh.fs)
           ELSE Continue(w, MkdirAllReturns([c EXCEPT !.pending = NoErr],
                                            c.pending, gh.fs), gh.fs)

\* ioutil.WriteFile, its os.OpenFile
WriteFileOpen(w, denied) ==
    /\ gh.workers[w].pc = "open"
    /\ LET c == gh.workers[w]
           opened == OpenFile(gh.fs, c.filePath, denied)
       IN  IF opened.err # NoErr
           THEN /\ gh' = [gh EXCEPT !.workers[w] =
                             Return([c EXCEPT !.write = "failed",
                                              !.oserr = opened.err],
                                    opened.err, gh.fs)]
                /\ UNCHANGED <<heap, unionVars, pathVars, validatorVars, gi,
                               rs>>
           ELSE /\ gh' = [gh EXCEPT !.workers[w] = [c EXCEPT !.pc = "write"],
                                    !.fs = opened.fs,
                                    !.opened = @ \cup {<<w, c.filePath>>}]
                /\ UNCHANGED <<heap, unionVars, pathVars, validatorVars, gi,
                               rs>>

\* ioutil.WriteFile, its f.Write: all the bytes, or the first n of them and
\* an error
WriteFileWrite(w, n) ==
    /\ gh.workers[w].pc = "write"
    /\ LET c == gh.workers[w]
       IN  /\ n \in 0..Len(c.blob)
           /\ Continue(w, [c EXCEPT !.pc = "close",
                                    !.pending = IF n < Len(c.blob)
                                                THEN "write failed"
                                                ELSE NoErr],
                       FileWrite(gh.fs, c.filePath, c.blob, n))

\* ioutil.WriteFile, its f.Close and return: the error of the write, or
\* else that of the close
WriteFileClose(w, failed) ==
    /\ gh.workers[w].pc = "close"
    /\ LET c == gh.workers[w]
           err == IF c.pending # NoErr THEN c.pending
                  ELSE IF failed THEN "close failed"
                  ELSE NoErr
       IN  Continue(w, Return([c EXCEPT !.pending = NoErr,
                                        !.write = IF err = NoErr THEN "ok"
                                                  ELSE "failed",
                                        !.oserr = err],
                              err, gh.fs), gh.fs)

NextGitHub ==
    \/ \E w \in PoolWorkers : WorkOtherTask(w)
    \/ \E w \in PoolWorkers : \E t \in GitHubTasks :
       \E get \in GetBlobRawResults : WorkGetBlobRaw(w, t, get)
    \/ \E w \in PoolWorkers : \E a \in WriteArguments : FSWriterWrite(w, a)
    \/ \E w \in PoolWorkers : \E denied \in BOOLEAN : StatDir(w, denied)
    \/ \E w \in PoolWorkers : \E denied \in BOOLEAN : MkdirAllStat(w, denied)
    \/ \E w \in PoolWorkers : \E denied \in BOOLEAN : MkdirAllMkdir(w, denied)
    \/ \E w \in PoolWorkers : \E denied \in BOOLEAN : MkdirAllLstat(w, denied)
    \/ \E w \in PoolWorkers : \E denied \in BOOLEAN : WriteFileOpen(w, denied)
    \/ \E w \in PoolWorkers : \E n \in 0..Len(Blob1) : WriteFileWrite(w, n)
    \/ \E w \in PoolWorkers : \E failed \in BOOLEAN : WriteFileClose(w, failed)

SpecGitHub == InitGitHub /\ [][NextGitHub]_vars

----------------------------------------------------------------------------
(* pkg/resourcehandlers/fs/fs.go: fsHandler.ReadGitInfo over the entries   *)
(* gitLog returns, in the order git log prints the commits.                *)

\* strings.Split(s, "<")[0]: s up to its first "<"
BeforeAngle(s) ==
    IF \E i \in 1..Len(s) : s[i] = "<"
    THEN SubSeq(s, 1, (CHOOSE i \in 1..Len(s) :
                           s[i] = "<" /\ \A j \in 1..(i - 1) : s[j] # "<") - 1)
    ELSE s

\* unicode.IsSpace: '\t', '\n', '\v', '\f', '\r', ' ', U+0085 and U+00A0;
\* also U+1680, U+2000 to U+200A, U+2028, U+2029, U+202F, U+205F and
\* U+3000, characters above U+00FF that a string of this module cannot hold
WhiteSpace == {"\t", "\n", VT, "\f", "\r", " ", NEL, NBSP}

\* strings.TrimSpace(s): s without its leading and trailing white space
RECURSIVE TrimSpace(_)
TrimSpace(s) ==
    IF Len(s) = 0 THEN s
    ELSE IF s[1] \in WhiteSpace THEN TrimSpace(Tail(s))
    ELSE IF s[Len(s)] \in WhiteSpace
    THEN TrimSpace(SubSeq(s, 1, Len(s) - 1))
    ELSE s

\* ReadGitInfo, the first loop: the name of every entry cut at "<" and
\* trimmed
TrimNames(log) ==
    [i \in 1..Len(log) |->
        [log[i] EXCEPT !.Name = TrimSpace(BeforeAngle(log[i].Name))]]

\* &github.User{Name: &name, Email: &email}
User(entry) == [Name |-> entry.Name, Email |-> entry.Email]

\* the contributors loop with an e-mail appended once only
RECURSIVE ContributorsOnce(_, _, _, _)
ContributorsOnce(log, authorEmail, i, acc) ==
    IF i > Len(log) THEN acc
    ELSE IF log[i].Email # authorEmail
            /\ \A k \in 1..Len(acc) : acc[k].Email # log[i].Email
    THEN ContributorsOnce(log, authorEmail, i + 1, Append(acc, User(log[i])))
    ELSE ContributorsOnce(log, authorEmail, i + 1, acc)

\* ReadGitInfo, the second loop: a contributor is appended for every entry
\* whose e-mail is not the author's
RECURSIVE Contributors(_, _, _, _)
Contributors(log, authorEmail, i, acc) ==
    IF i > Len(log) THEN acc
    ELSE IF log[i].Email # authorEmail
    THEN Contributors(log, authorEmail, i + 1, Append(acc, User(log[i])))
    ELSE Contributors(log, authorEmail, i + 1, acc)

NoGitInfo ==
    [isNil |-> TRUE, Author |-> [Name |-> EmptyStr, Email |-> EmptyStr],
     PublishDate |-> 0, LastModifiedDate |-> 0, Contributors |-> <<>>]

\* func (fs *fsHandler) ReadGitInfo(ctx, uri) ([]byte, error): the result
\* is the git.GitInfo that is marshalled into the returned bytes, or nil
ReadGitInfo(gitExists, logErr, rawLog) ==
    IF ~gitExists
    THEN [info |-> NoGitInfo, err |-> "git not found in PATH"]
    ELSE IF logErr # NoErr THEN [info |-> NoGitInfo, err |-> logErr]
    ELSE IF Len(rawLog) = 0 THEN [info |-> NoGitInfo, err |-> NoErr]
    ELSE LET log == TrimNames(rawLog)
             last == log[Len(log)]
         IN  [info |-> [isNil |-> FALSE,
                        Author |-> [Name |-> last.Name, Email |-> last.Email],
                        PublishDate |-> last.Date,
                        LastModifiedDate |-> log[1].Date,
                        Contributors |->
                            Contributors(log, last.Email, 1, <<>>)],
              err |-> NoErr]

----------------------------------------------------------------------------
(* SpecGitInfo: one ReadGitInfo call for every commit log of up to         *)
(* MaxLogLen entries.                                                      *)

Emails == {<<"a">>, <<"b">>, <<"c">>}
\* %aN as git prints it: plain, followed by "<", ending in a no-break space
AuthorNames == {<<"N">>, <<"N", " ", "<", "a", ">">>, <<"N", NBSP>>}
\* author dates as day numbers; git log prints the commits in commit order,
\* the author dates of a rebased or cherry-picked commit are in any order
Dates == {1, 2}

LogEntries == [Name : AuthorNames, Email : Emails, Date : Dates]

InitGitInfo ==
    /\ heap = <<>>
    /\ recv = NilNode
    /\ incoming = <<>>
    /\ ucalls = 0
    /\ uret = NoReturn
    /\ before = <<>>
    /\ pfrom = NilNode
    /\ pto = NilNode
    /\ presult = EmptyStr
    /\ validated = {}
    /\ vw = <<>>
    /\ vcount = 0
    /\ okProbed = {}
    /\ marked = {}
    /\ mux = Unlocked
    /\ gh = NoCall
    /\ \E gitExists \in BOOLEAN : \E logErr \in {NoErr, "stat failed"} :
       \E log \in SeqsUpTo(LogEntries, MaxLogLen) :
          /\ (~gitExists \/ logErr # NoErr) => log = <<>>
          /\ gi = [pc |-> "ready", gitExists |-> gitExists,
                   logErr |-> logErr, log |-> log,
                   ret |-> [info |-> NoGitInfo, err |-> NoErr]]
    /\ rs = NoCall

\* blob, err := fs.ReadGitInfo(ctx, uri)
CallReadGitInfo ==
    /\ gi.pc = "ready"
    /\ gi' = [gi EXCEPT !.pc = "done",
                        !.ret = ReadGitInfo(gi.gitExists, gi.logErr, gi.log)]
    /\ UNCHANGED <<heap, unionVars, pathVars, validatorVars, gh, rs>>

NextGitInfo == CallReadGitInfo

SpecGitInfo == InitGitInfo /\ [][NextGitInfo]_vars

----------------------------------------------------------------------------
(* Node tree helpers used to state the properties *)

Kids0(h, p) == {h[p].Nodes[i] : i \in 1..Len(h[p].Nodes)}

\* the nodes reachable from p through Nodes, p included
RECURSIVE ReachFrom(_, _, _)
ReachFrom(h, frontier, seen) ==
    IF frontier \subseteq seen THEN seen
    ELSE LET now == seen \cup frontier
         IN  ReachFrom(h, UNION {Kids0(h, q) : q \in frontier} \ now, now)

Subtree(h, p) == ReachFrom(h, {p}, {})

UniqueChildNames(h, p) ==
    \A i, j \in 1..Len(h[p].Nodes) :
        i # j => h[h[p].Nodes[i]].Name # h[h[p].Nodes[j]].Name

IsPrefix(s, t) ==
    /\ Len(s) <= Len(t)
    /\ \A i \in 1..Len(s) : s[i] = t[i]

SeqRange(s) == {s[i] : i \in 1..Len(s)}

----------------------------------------------------------------------------
(* Claims about Union, checked under SpecUnion *)

\* content as the specification defines it: a non-empty Source, a Template,
\* or at least one content selector
HasContent(n) ==
    n.Source # EmptyStr \/ ~n.Template.isNil \/ Len(n.ContentSelectors.elems) > 0

\* C1: after Union returns on a container whose children had pairwise
\* distinct names, the children of the receiver and of every container the
\* recursive merge reached have pairwise distinct names again.
C1_UniqueNamesAfterUnion ==
    (ucalls >= 1 /\ \A p \in Subtree(before, recv) : UniqueChildNames(before, p))
        => \A p \in SeqRange(uret.calls) : UniqueChildNames(heap, p)

\* C2: Union is idempotent: a second Union with the same incoming slice
\* leaves the receiver's subtree as the first call left it.
C2_UnionIdempotent ==
    ucalls = 2 =>
        /\ Subtree(heap, recv) = Subtree(before, recv)
        /\ \A p \in Subtree(heap, recv) : heap[p] = before[p]

\* an incoming node is kept in the tree: it is in the tree itself, or it
\* is deep-equal to a node of the tree, or it is a container all of whose
\* children are kept
RECURSIVE Kept(_, _, _)
Kept(h, tree, node) ==
    \/ node \in tree
    \/ \E p \in tree : DeepEqual(h, p, node)
    \/ /\ ~isDocument(h[node])
       /\ \A k \in Kids0(h, node) : Kept(h, tree, k)

\* C3 as claimed: after Union returns nil every incoming node is kept; no
\* incoming document is dropped.
C3_NoIncomingLost ==
    (ucalls >= 1 /\ ~uret.err)
        => \A j \in 1..Len(incoming) :
               Kept(heap, Subtree(heap, recv) \ {recv}, incoming[j])

\* an incoming node is accounted for under target: it was appended to
\* target, or a same-named child of target is deep-equal to it, or it is a
\* container whose children are accounted for under that child, or it is a
\* document that was left out with a collision warning
RECURSIVE Accounted(_, _, _, _)
Accounted(h, warned, target, node) ==
    \/ node \in Kids0(h, target)
    \/ \E e \in Kids0(h, target) :
          /\ h[e].Name = h[node].Name
          /\ \/ DeepEqual(h, e, node)
             \/ isDocument(h[node]) /\ node \in warned /\ e # node
             \/ /\ ~isDocument(h[node])
                /\ \A k \in Kids0(h, node) : Accounted(h, warned, e, k)

\* C3 (amended): after Union returns nil every incoming node is appended,
\* or deep-equal to the same-named child, or a container whose children are
\* merged under the same-named child, or a document that collides by name
\* with a different child and is left out with a logged warning.
C3_IncomingAccountedFor ==
    (ucalls >= 1 /\ ~uret.err)
        => \A j \in 1..Len(incoming) :
               Accounted(heap, SeqRange(uret.warned), recv, incoming[j])

\* a call that appended one incoming node, merged another recursively and
\* left a colliding document out
C3_Witness ==
    /\ ucalls = 1
    /\ ~uret.err
    /\ Len(uret.warned) > 0
    /\ Len(uret.merged) > 0
    /\ \E j \in 1..Len(incoming) : incoming[j] \in Kids0(heap, recv)

\* C4: Union never overwrites: every node of the receiver's subtree keeps
\* its Name, Source, ContentSelectors and Template, stays in the subtree,
\* and its child list only grows at the end, and only if it is a container.
C4_UnionOnlyAppends ==
    ucalls >= 1 =>
        \A p \in Subtree(before, recv) :
            /\ p \in Subtree(heap, recv)
            /\ heap[p].Name = before[p].Name
            /\ heap[p].Source = before[p].Source
            /\ heap[p].ContentSelectors = before[p].ContentSelectors
            /\ heap[p].Template = before[p].Template
            /\ heap[p].parent = before[p].parent
            /\ IsPrefix(before[p].Nodes, heap[p].Nodes)
            /\ heap[p].Nodes # before[p].Nodes => ~isDocument(before[p])

\* a call that appended to the receiver, which had children, and to one of
\* its children, which had a child too
C4_Witness ==
    /\ ucalls >= 1
    /\ Len(before[recv].Nodes) > 0
    /\ Len(heap[recv].Nodes) > Len(before[recv].Nodes)
    /\ \E p \in Kids0(before, recv) :
          /\ Len(before[p].Nodes) > 0
          /\ Len(heap[p].Nodes) > Len(before[p].Nodes)

\* the last child of the receiver with the name of node, before the call
ExistingBefore(node) ==
    {e \in Kids0(before, recv) :
        /\ before[e].Name = before[node].Name
        /\ e = NodesByName(before, recv)[before[e].Name]}

\* C5: Union returns an error exactly when some Union invocation, the call
\* itself or a recursive merge, has a document receiver; that invocation is
\* the last one; a recursive merge is made only into a same-named child for
\* an incoming container with children; a document receiver is unchanged.
C5_ErrorIffMergeIntoDocument ==
    ucalls >= 1 =>
        /\ uret.err <=> \E i \in 1..Len(uret.calls) :
                            isDocument(heap[uret.calls[i]])
        /\ \A i \in 1..Len(uret.calls) :
              isDocument(heap[uret.calls[i]]) => i = Len(uret.calls)
        /\ uret.calls[1] = recv
        /\ Len(uret.calls) = 1 + Len(uret.merged)
        /\ \A i \in 1..Len(uret.merged) :
              LET e == uret.merged[i][1]
                  node == uret.merged[i][2]
              IN  /\ uret.calls[i + 1] = e
                  /\ e # node
                  /\ heap[e].Name = heap[node].Name
                  /\ ~isDocument(heap[node])
                  /\ Len(heap[node].Nodes) > 0
                  /\ isDocument(heap[e]) => ~DeepEqual(heap, e, node)
        /\ isDocument(before[recv]) => uret.err /\ heap = before
        /\ (\E j \in 1..Len(incoming) :
               /\ ~isDocument(before[incoming[j]])
               /\ Len(before[incoming[j]].Nodes) > 0
               /\ \E e \in ExistingBefore(incoming[j]) : isDocument(before[e]))
           => uret.err

\* an error raised two merges below the receiver, after an append
C5_Witness ==
    /\ ucalls = 1
    /\ uret.err
    /\ Len(uret.calls) = 3
    /\ ~isDocument(heap[recv])
    /\ Len(heap[recv].Nodes) > Len(before[recv].Nodes)

\* C6: a node is a document node, and Union into it is refused, exactly
\* when its Source, Template or ContentSelectors is non-empty.
C6_DocumentIffHasContent ==
    ucalls >= 1 =>
        /\ isDocument(before[recv]) <=> HasContent(before[recv])
        /\ (uret.err /\ uret.calls = <<recv>>) <=> HasContent(before[recv])

----------------------------------------------------------------------------
(* Claims about RelativePath, checked under SpecPath *)

\* every node held in a Nodes slice refers back to its holder
\* the parent references are consistent: the parent of a node is the node
\* that holds it, nil when no node does
Linked(h) ==
    \A n \in DOMAIN h :
        /\ \A p \in DOMAIN h : n \in Kids0(h, p) => h[n].parent = p
        /\ (\A p \in DOMAIN h : n \notin Kids0(h, p)) => h[n].parent = NilNode

\* the proper ancestors of n along the parent references
RECURSIVE AncestorsOf(_, _)
AncestorsOf(h, n) ==
    IF h[n].parent = NilNode THEN {}
    ELSE {h[n].parent} \cup AncestorsOf(h, h[n].parent)

Depth(h, n) == Cardinality(AncestorsOf(h, n))

SameTree(h, a, b) ==
    \E r \in DOMAIN h : {a, b} \subseteq Subtree(h, r)

\* a path string cut at every "/" (strings.Split(path, "/"))
RECURSIVE SplitFrom(_, _, _)
SplitFrom(str, i, cur) ==
    IF i > Len(str) THEN <<cur>>
    ELSE IF str[i] = "/" THEN <<cur>> \o SplitFrom(str, i + 1, EmptyStr)
    ELSE SplitFrom(str, i + 1, Append(cur, str[i]))

Split(str) == SplitFrom(str, 1, EmptyStr)

\* resolution of path segments from a node: "." stays, ".." goes to the
\* parent, a name goes to the child with that name; nil when a step fails
RECURSIVE Resolve(_, _, _)
Resolve(h, cur, segs) ==
    IF Len(segs) = 0 \/ cur = NilNode THEN cur
    ELSE LET seg == Head(segs)
             next == IF seg = Dot THEN cur
                     ELSE IF seg = DotDot THEN h[cur].parent
                     ELSE IF \E c \in Kids0(h, cur) : h[c].Name = seg
                     THEN CHOOSE c \in Kids0(h, cur) : h[c].Name = seg
                     ELSE NilNode
         IN  Resolve(h, next, Tail(segs))

\* where the resolution of from.RelativePath(to) starts: at `from`, or at
\* the node holding `from` (the way a relative link in a file resolves)
ResolveStart(h, rule, from) ==
    IF rule = "node" THEN from ELSE h[from].parent

RoundTrips(h, rule) ==
    \A x, y \in DOMAIN h :
        (x # y /\ SameTree(h, x, y))
            => Resolve(h, ResolveStart(h, rule, x),
                       Split(relativePath(h, x, y))) = y

\* C7: RelativePath round-trips: in a linked tree there is one fixed
\* resolution rule ("." stays, ".." goes to the parent, a name goes to the
\* child of that name; started at `from` or at its parent) under which
\* from.RelativePath(to) leads from `from` to `to` for every two different
\* nodes of one tree.
C7_RelativePathRoundTrip ==
    (pfrom # NilNode /\ pfrom # pto /\ Linked(heap)
        /\ SameTree(heap, pfrom, pto))
        => \E rule \in {"node", "parent"} : RoundTrips(heap, rule)

\* "." followed by "/" and the name of every node on the way down to `to`
RECURSIVE DownPath(_, _, _)
DownPath(h, from, to) ==
    IF to = from THEN Dot
    ELSE DownPath(h, from, h[to].parent) \o Slash \o h[to].Name

\* n times "../"
RECURSIVE UpPath(_)
UpPath(n) == IF n = 0 THEN EmptyStr ELSE DotDot \o Slash \o UpPath(n - 1)

\* C8: in a linked tree RelativePath(from, to) is from.Name when from = to,
\* "." and the names down to `to` when `to` is a strict descendant, and
\* depth(from) - depth(to) times ".." and to.Name when `to` is a strict
\* ancestor.
C8_RelativePathReference ==
    (pfrom # NilNode /\ Linked(heap)) =>
        /\ pfrom = pto => presult = heap[pfrom].Name
        /\ pfrom \in AncestorsOf(heap, pto) =>
              presult = DownPath(heap, pfrom, pto)
        /\ pto \in AncestorsOf(heap, pfrom) =>
              presult = UpPath(Depth(heap, pfrom) - Depth(heap, pto))
                            \o heap[pto].Name

\* a path to an ancestor two or more levels up in a linked tree
C8_Witness ==
    /\ pfrom # NilNode
    /\ Linked(heap)
    /\ pto \in AncestorsOf(heap, pfrom)
    /\ Depth(heap, pfrom) - Depth(heap, pto) >= 2

----------------------------------------------------------------------------
(* Claims about the link validator, checked under SpecValidate *)

\* C9: the validated set holds only successfully validated links: a
\* normalized URL is in it only if a HEAD or GET probe of it completed with
\* a status below 400, or with 401 or 403.
C9_ValidatedOnlyAfterSuccess ==
    \A u \in validated : u \in okProbed

\* C10: sequential deduplication: a Validate call that starts after a call
\* for the same scheme, host and path has returned after marking its link
\* validated returns nil without issuing any HTTP request (and without
\* consulting the handler registry).
C10_SequentialDedup ==
    \A w \in DOMAIN vw :
        (vw[w].pc # "idle" /\ vw[w].dup)
            => /\ vw[w].pc \in {"rlock", "exist", "returned"}
               /\ vw[w].pc = "returned" => vw[w].ret = "nil"
               /\ vw[w].nreq = 0
               /\ ~vw[w].registryGet

\* a second call whose link differs from a validated one by its query only
C10_Witness ==
    \E w \in DOMAIN vw :
        /\ vw[w].pc = "returned"
        /\ vw[w].dup
        /\ vw[w].url.RawQuery # EmptyStr
        /\ vw[w].url \notin marked
        /\ \E m \in marked :
              SameResource(m, vw[w].url) /\ m.RawQuery = EmptyStr


\* the requests of a call made with the given method, as positions of its log
RequestsWith(log, method) == {i \in 1..Len(log) : log[i].method = method}

Last(S) == CHOOSE x \in S : \A y \in S : y <= x

\* what client.Do returned sends Validate to the GET retry, written out
\* from the wording of the claim
NeedsGet(entry) ==
    /\ entry.err = "none"
    /\ entry.status >= 400
    /\ entry.status \notin {401, 403}

\* the validation of the call made with HEAD has returned to Validate
HeadCompleted(c) ==
    /\ RequestsWith(c.log, "HEAD") # {}
    /\ c.method = "GET" \/ c.pc \in {"add", "adding", "returned"}

\* C11: HEAD-then-GET fallback: within one Validate call a GET request is
\* issued only after the HEAD validation completed without error with a
\* final status >= 400 other than 401 and 403, and then exactly one GET
\* validation is attempted; after a HEAD answered 401, 403 or below 400, or
\* failing at transport level, no GET is issued; Validate returns nil in
\* all these cases.
C11_HeadThenGetFallback ==
    \A w \in DOMAIN vw :
        LET c == vw[w]
            heads == RequestsWith(c.log, "HEAD")
            gets == RequestsWith(c.log, "GET")
            getValidations == {i \in gets : ~c.log[i].retry}
        IN  /\ \A g \in gets : \A h \in heads : h < g
            /\ gets # {} => (heads # {} /\ NeedsGet(c.log[Last(heads)]))
            /\ Cardinality(getValidations) <= 1
            /\ (c.method = "HEAD" /\ c.pc \in {"do", "sleep"}) => gets = {}
            /\ (HeadCompleted(c) /\ c.pc # "do")
                  => IF NeedsGet(c.log[Last(heads)])
                     THEN Cardinality(getValidations) = 1
                     ELSE gets = {}
            /\ (c.pc = "returned" /\ heads # {}) => c.ret = "nil"

\* a call that got 404 for HEAD and 200 for GET has returned
C11_Witness ==
    \E w \in DOMAIN vw :
        LET c == vw[w]
        IN  /\ c.pc = "returned"
            /\ Len(c.log) = 2
            /\ c.log[1].method = "HEAD" /\ c.log[1].status = 404
            /\ c.log[2].method = "GET" /\ c.log[2].status = 200


\* the validation of the call made with the given method has returned to
\* Validate
ValidationCompleted(c, method) ==
    IF method = "HEAD" THEN HeadCompleted(c)
    ELSE /\ RequestsWith(c.log, "GET") # {}
         /\ c.pc \in {"add", "adding", "returned"}

\* C12: 429 retry schedule of doValidation: a retry is issued only right
\* after a 429 response; a validation that ends with a 429 response has
\* used every entry of the delay schedule (1s, 5s, 10s, 20s) for one retry;
\* a validation makes at most one request more than the schedule has
\* entries; a 429 that persists makes Validate log a warning and return
\* nil.
C12_RetryUsesWholeSchedule ==
    \A w \in DOMAIN vw : \A method \in {"HEAD", "GET"} :
        LET c == vw[w]
            reqs == RequestsWith(c.log, method)
            retries == {i \in reqs : c.log[i].retry}
        IN  /\ \A i \in retries :
                  /\ i - 1 \in reqs
                  /\ c.log[i - 1].err = "none"
                  /\ c.log[i - 1].status = 429
            /\ Cardinality(reqs) <= Len(intervals) + 1
            /\ (ValidationCompleted(c, method)
                    /\ c.log[Last(reqs)].err = "none"
                    /\ c.log[Last(reqs)].status = 429)
                  => Cardinality(retries) = Len(intervals)
            /\ (c.pc = "returned" /\ ValidationCompleted(c, "GET")
                    /\ c.log[Len(c.log)].err = "none"
                    /\ c.log[Len(c.log)].status = 429)
                  => (c.warned /\ c.ret = "nil")


\* C13: cancellation of a validation call: once the context is cancelled
\* while the call is probing or sleeping in the backoff, the call issues at
\* most the attempt that was cancelled, which does not succeed (no further
\* retry, no GET fallback), and it returns a cancellation error, not nil.
C13_CancelledCallReturnsCancellation ==
    \A w \in DOMAIN vw :
        LET c == vw[w]
        IN  c.ctxDone
              => /\ Len(c.log) - c.cancelledAt <= 1
                 /\ \A i \in (c.cancelledAt + 1)..Len(c.log) :
                        c.log[i].err = "context"
                 /\ c.pc = "returned" => c.ret = "cancelled"

\* C13 with the value Validate does return after a cancellation
C13_CancelledCallStopsProbing ==
    \A w \in DOMAIN vw :
        LET c == vw[w]
        IN  c.ctxDone
              => /\ Len(c.log) - c.cancelledAt <= 1
                 /\ \A i \in (c.cancelledAt + 1)..Len(c.log) :
                        c.log[i].err = "context"
                 /\ c.pc = "returned" => c.ret = "nil"


\* the hostname of a link is on the denylist, written out from the wording
\* of the claim
Denylisted(u) ==
    LET host == Hostname(u)
    IN  \/ host \in {Localhost, Loopback, SampleIP}
        \/ \E i \in 1..Len(host) :
              i + Len(FooBar) - 1 <= Len(host)
                  /\ SubSeq(host, i, i + Len(FooBar) - 1) = FooBar

\* C14: denylisted hosts are never probed: for a link whose hostname is
\* localhost, 127.0.0.1 or 1.2.3.4, or contains foo.bar, Validate returns
\* nil without issuing an HTTP request and without consulting the handler
\* registry, and it leaves the validated set as it was.
C14_DenylistedNeverProbed ==
    \A w \in DOMAIN vw :
        LET c == vw[w]
        IN  (c.pc # "idle" /\ Denylisted(c.url))
              => /\ c.pc = "returned"
                 /\ c.ret = "nil"
                 /\ c.nreq = 0
                 /\ c.log = <<>>
                 /\ ~c.registryGet
                 /\ ~c.missed
                 /\ validated = c.setBefore
                 /\ UnifiedURL(c.url) \notin validated

\* a call for localhost with a port has returned on a validator whose set
\* holds a link already
C14_Witness ==
    \E w \in DOMAIN vw :
        /\ vw[w].pc = "returned"
        /\ vw[w].url.Host = Localhost \o <<":", "8">>
        /\ vw[w].setBefore # {}


----------------------------------------------------------------------------
(* Claims about concurrent Validate calls, checked under SpecConcurrent *)

\* no caller is inside add while another is inside exist or add
MutualExclusion ==
    \A w1, w2 \in ConcurrentCallers :
        (w1 # w2 /\ vw[w1].pc = "adding")
            => vw[w2].pc \notin {"exist", "adding"}

\* a call whose lookup missed issues its own request, whatever the other
\* caller does; a call that started with its key in the set issues none
NoSingleFlight ==
    \A w \in ConcurrentCallers :
        LET c == vw[w]
        IN  /\ (c.missed /\ c.url.parses
                    /\ c.pc \in {"sleep", "add", "adding", "returned"})
                  => c.nreq >= 1
            /\ (c.missed /\ c.pc = "returned" /\ c.url.parses)
                  => UnifiedURL(c.url) \in validated
            /\ (c.pc # "idle" /\ UnifiedURL(c.url) \in c.setBefore)
                  => (c.nreq = 0 /\ ~c.missed)

\* C17: concurrent Validate calls on one validator are safe under every
\* interleaving: no caller writes the validated set while another reads or
\* writes it, the set only grows, every call returns, and calls are not
\* collapsed: a call whose lookup missed issues its own HTTP request also
\* when another call for the same normalized URL is in flight, after which
\* the URL is in the set and calls started later issue none.
C17_ConcurrentValidateSafe ==
    /\ [](MutualExclusion /\ NoSingleFlight)
    /\ [][validated \subseteq validated']_vars
    /\ \A w \in ConcurrentCallers :
          (vw[w].pc \notin {"idle", "returned"}) ~> (vw[w].pc = "returned")

\* both callers probed the same new normalized URL, given under two
\* spellings, and both have returned
C17_Witness ==
    /\ vw[1].pc = "returned" /\ vw[2].pc = "returned"
    /\ vw[1].url # vw[2].url
    /\ UnifiedURL(vw[1].url) = UnifiedURL(vw[2].url)
    /\ vw[1].missed /\ vw[2].missed
    /\ vw[1].nreq >= 1 /\ vw[2].nreq >= 1
    /\ vw[1].setBefore = {} /\ vw[2].setBefore = {}


----------------------------------------------------------------------------
(* Claims about GitHubWorker.Work, checked under SpecGitHub *)

\* the error the call c met: that of the fetch, the status, or the error
\* returned by the file system call that failed
UnderlyingError(c) ==
    IF c.get.err # NoErr THEN c.get.err
    ELSE IF c.get.status # 200 THEN StatusError(c.get.status)
    ELSE c.oserr

\* the contract of one Work call on a *GitHubTask that has returned; the
\* call is that of worker w
WorkErrorContract(w) ==
    LET c == gh.workers[w]
    IN  /\ c.ret.isNil
              <=> (c.get.err = NoErr /\ c.get.status = 200 /\ c.write = "ok")
        /\ c.ret.isNil => c.atReturn = [exists |-> TRUE, bytes |-> c.get.blob]
        /\ ~c.ret.isNil => c.ret.error = UnderlyingError(c)
        /\ (~c.ret.isNil /\ c.write = "notreached")
              => /\ \A o \in gh.opened : o[1] # w
                 /\ \A q \in DOMAIN gh.fs.files :
                       \/ q \in DOMAIN gh.fsBefore.files
                       \/ \E o \in gh.opened : o[1] # w /\ o[2] = q

\* the same contract for the calls whose destination no other worker has
\* opened
WorkErrorContractUndisturbed ==
    \A w \in PoolWorkers :
        (/\ gh.workers[w].kind = "work"
         /\ gh.workers[w].pc = "done"
         /\ \A o \in gh.opened : o[1] # w => o[2] # gh.workers[w].filePath)
            => WorkErrorContract(w)

----------------------------------------------------------------------------
(* Claims about ReadGitInfo, checked under SpecGitInfo *)

\* C16: ReadGitInfo over a non-empty commit log (newest record first): the
\* author is the author of the earliest record, the last-modified date is
\* the date of the latest record, and the contributors hold each distinct
\* e-mail that differs from the author's exactly once; an empty log yields
\* an empty result with no error.
C16_GitInfoContract ==
    (gi.pc = "done" /\ gi.gitExists /\ gi.logErr = NoErr)
        => LET log == gi.log
               info == gi.ret.info
               contributors == info.Contributors
           IN  /\ gi.ret.err = NoErr
               /\ info.isNil <=> Len(log) = 0
               /\ Len(log) > 0
                     => /\ info.Author.Email = log[Len(log)].Email
                        /\ info.LastModifiedDate = log[1].Date
                        /\ \A i \in 1..Len(log) :
                              log[i].Email # info.Author.Email
                                  => \E k \in 1..Len(contributors) :
                                        contributors[k].Email = log[i].Email
                        /\ \A k \in 1..Len(contributors) :
                              /\ contributors[k].Email # info.Author.Email
                              /\ \E i \in 1..Len(log) :
                                    log[i].Email = contributors[k].Email
                        /\ \A k, m \in 1..Len(contributors) :
                              contributors[k].Email = contributors[m].Email
                                  => k = m


----------------------------------------------------------------------------
(* pkg/resourcehandlers/fs/fs.go: fsHandler.ResolveNodeSelector.  The      *)
(* entries filepath.Walk visits are numbered in the order of the walk      *)
(* (lexical, a directory before what it holds); entry 1 is the root.       *)

\* NodeSelector.Path as the manifest spells it: the directory or file r
\* named relative to the working directory, with "./" before or "/" after
\* it, by its absolute path, as the working directory itself, and an
\* entry named r.md
RootPaths ==
    {<<"r">>, <<".", "/", "r">>, <<"r", "/">>, <<"/", "x", "/", "r">>,
     <<".">>, <<"r", ".", "m", "d">>}

\* os basename(name), the Name() of the os.FileInfo of os.Stat(name) and
\* os.Lstat(name): the trailing slashes are removed, then everything up to
\* the last slash that is before the last byte
RECURSIVE Basename(_)
Basename(name) ==
    IF Len(name) > 1 /\ name[Len(name)] = "/"
    THEN Basename(SubSeq(name, 1, Len(name) - 1))
    ELSE SubSeq(name,
                LastIndexByte(SubSeq(name, 1, Len(name) - 1), "/") + 1,
                Len(name))

\* filepath.Ext(path): the suffix of path from the last "." of its last
\* element on, "" when there is none
Ext(path) ==
    LET dot == LastIndexByte(path, ".")
    IN  IF dot > LastIndexByte(path, "/")
        THEN SubSeq(path, dot, Len(path)) ELSE EmptyStr

\* the directory trees of n entries: up[i] is the directory that holds
\* entry i (0 for the root); entry i+1 is in entry i, or in a directory
\* that entry i is in
RECURSIVE IsUnder(_, _, _)
IsUnder(up, i, d) ==
    IF i = 0 THEN FALSE ELSE i = d \/ IsUnder(up, up[i], d)

WalkTrees(n) ==
    {t \in [up : [1..n -> 0..(n - 1)], isDir : [1..n -> BOOLEAN]] :
        /\ t.up[1] = 0
        /\ \A i \in 2..n :
              /\ t.up[i] >= 1
              /\ t.up[i] < i
              /\ t.isDir[t.up[i]]
              /\ IsUnder(t.up, i - 1, t.up[i])}

\* the entries of t held by directory d, in walk order
EntriesIn(t, d) ==
    SelectSeq([i \in 1..Len(t.up) |-> i], LAMBDA i : t.up[i] = d)

\* info.Name() of entry i of the walk of root: the k-th entry of a
\* directory is named by the k-th letter
EntryName(root, t, i) ==
    IF i = 1 THEN Basename(root)
    ELSE <<Letters[IndexIn(EntriesIn(t, t.up[i]), i)]>>

\* filepath.Clean of the elements of a path: "" and "." are dropped, ".."
\* removes the element before it; with none before it, it is dropped in a
\* rooted path and stays in a relative one
RECURSIVE CleanElements(_, _, _)
CleanElements(elements, rooted, out) ==
    IF elements = <<>> THEN out
    ELSE IF Head(elements) \in {EmptyStr, Dot}
    THEN CleanElements(Tail(elements), rooted, out)
    ELSE IF Head(elements) = DotDot
    THEN IF out # <<>> /\ out[Len(out)] # DotDot
         THEN CleanElements(Tail(elements), rooted,
                            SubSeq(out, 1, Len(out) - 1))
         ELSE IF rooted THEN CleanElements(Tail(elements), rooted, out)
         ELSE CleanElements(Tail(elements), rooted, Append(out, DotDot))
    ELSE CleanElements(Tail(elements), rooted, Append(out, Head(elements)))

\* filepath.Clean(path): "" gives ".", a rooted path keeps its leading "/"
FilepathClean(path) ==
    LET rooted == path # EmptyStr /\ path[1] = "/"
        out == Join(CleanElements(Split(path), rooted, <<>>), Slash)
    IN  IF rooted THEN Slash \o out
        ELSE IF out = EmptyStr THEN Dot
        ELSE out

\* filepath.Join(segments...): the segments from the first non-empty one on
\* joined by "/" and cleaned; "" when every segment is empty
RECURSIVE FilepathJoin(_)
FilepathJoin(segments) ==
    IF segments = <<>> THEN EmptyStr
    ELSE IF Head(segments) = EmptyStr THEN FilepathJoin(Tail(segments))
    ELSE FilepathClean(Join(segments, Slash))

\* the path filepath.Walk hands to the callback for entry i: the root as
\* it is spelled, and filepath.Join(path of the directory, name) for an
\* entry of a directory
RECURSIVE EntryPath(_, _, _)
EntryPath(root, t, i) ==
    IF i = 1 THEN root
    ELSE FilepathJoin(<<EntryPath(root, t, t.up[i]), EntryName(root, t, i)>>)

TopPtr == 1

\* an api.Node as the callback makes it: &api.Node{Name: info.Name()} with
\* the parent set, and Source set to the path for a file
WalkNode(name, parent, source) ==
    [NewNode(name, SourceContent(source), NilSlice) EXCEPT !.parent = parent]

\* the callback with node moved up until it is the node of the directory
\* that holds the entry
RECURSIVE UpToDepth(_, _, _)
UpToDepth(h, node, levels) ==
    IF levels <= 0 \/ node = NilNode THEN node
    ELSE UpToDepth(h, h[node].parent, levels - 1)

WalkFuncToContainer(st, path, name, isDir) ==
    LET segments == Split(path)
        moveUp == /\ path # st.parentPath
                  /\ Len(segments) - Len(Split(st.parentPath)) # 1
        node == IF moveUp
                THEN UpToDepth(st.heap, st.node,
                               Len(Split(st.parentPath)) - Len(segments) + 1)
                ELSE st.node
        parentPath ==
            IF moveUp
            THEN FilepathJoin(SubSeq(segments, 1, Len(segments) - 1))
            ELSE st.parentPath
        n == Len(st.heap) + 1
        source == IF isDir THEN EmptyStr ELSE path
        h1 == Append(st.heap, WalkNode(name, node, source))
        h2 == AppendChild(h1, node, n)
        h3 == IF isDir THEN [h2 EXCEPT ![n].nilNodes = FALSE] ELSE h2
    IN  IF st.panicked \/ node = NilNode
        THEN [st EXCEPT !.panicked = TRUE]
        ELSE [heap |-> h3,
              node |-> IF isDir THEN n ELSE node,
              parentPath |-> IF isDir THEN path ELSE parentPath,
              panicked |-> FALSE]

\* the filepath.WalkFunc of ResolveNodeSelector called for one entry; st
\* holds the heap and the variables node and parentPath the closure
\* captures; a nil node makes node.Nodes panic
WalkFunc(st, path, name, isDir) ==
    LET segments == Split(path)
        moveUp == /\ path # st.parentPath
                  /\ Len(segments) - Len(Split(st.parentPath)) # 1
        node == IF moveUp THEN st.heap[st.node].parent ELSE st.node
        parentPath ==
            IF moveUp
            THEN FilepathJoin(SubSeq(segments, 1, Len(segments) - 1))
            ELSE st.parentPath
        n == Len(st.heap) + 1
        source == IF isDir THEN EmptyStr ELSE path
        h1 == Append(st.heap, WalkNode(name, node, source))
        h2 == AppendChild(h1, node, n)
        h3 == IF isDir THEN [h2 EXCEPT ![n].nilNodes = FALSE] ELSE h2
    IN  IF st.panicked \/ node = NilNode
        THEN [st EXCEPT !.panicked = TRUE]
        ELSE [heap |-> h3,
              node |-> IF isDir THEN n ELSE node,
              parentPath |-> IF isDir THEN path ELSE parentPath,
              panicked |-> FALSE]

\* filepath.Walk(root, fn) from entry i on
RECURSIVE Walk(_, _, _, _)
Walk(root, t, st, i) ==
    IF i > Len(t.up) THEN st
    ELSE Walk(root, t,
              WalkFunc(st, EntryPath(root, t, i), EntryName(root, t, i),
                       t.isDir[i]),
              i + 1)

\* node.SetParent(nil) for the nodes from the i-th on
RECURSIVE ClearParents(_, _, _)
ClearParents(h, nodes, i) ==
    IF i > Len(nodes) THEN h
    ELSE ClearParents(SetParent(h, nodes[i], NilNode), nodes, i + 1)

\* what ResolveNodeSelector returns: the heap it leaves, the nodes (none
\* for nil), whether it panicked, and the error
ResolveReturn(h, nodes, panicked, err) ==
    [heap |-> h, nodes |-> nodes, panicked |-> panicked, err |-> err]

\* func (fs *fsHandler) ResolveNodeSelector(...) ([]*api.Node, error):
\* hasSelector tells that node.NodeSelector is not nil, root is
\* NodeSelector.Path, statErr the error of os.Stat(root), and t the tree
\* found at root
ResolveNodeSelector(hasSelector, root, statErr, t) ==
    IF ~hasSelector THEN ResolveReturn(<<>>, <<>>, FALSE, NoErr)
    ELSE IF statErr # NoErr THEN ResolveReturn(<<>>, <<>>, FALSE, statErr)
    ELSE IF ~t.isDir[1] /\ Ext(Basename(root)) = <<".", "m", "d">>
    THEN ResolveReturn(<<>>, <<>>, FALSE,
                       "nodeSelector path is neither directory or module")
    ELSE LET start == [heap |-> <<NewNode(EmptyStr, ContainerContent,
                                          SliceOf(<<>>))>>,
                       node |-> TopPtr,
                       parentPath |-> root,
                       panicked |-> FALSE]
             st == Walk(root, t, start, 1)
             h == st.heap
             top == h[TopPtr].Nodes
         IN  IF st.panicked THEN ResolveReturn(h, <<>>, TRUE, NoErr)
             ELSE IF Len(top) > 0 /\ Len(h[top[1]].Nodes) > 0
             THEN ResolveReturn(ClearParents(h, h[top[1]].Nodes, 1),
                                h[top[1]].Nodes, FALSE, NoErr)
             ELSE ResolveReturn(h, <<>>, FALSE, NoErr)

----------------------------------------------------------------------------
(* SpecResolve: one ResolveNodeSelector call for every spelling of the     *)
(* root and every directory tree of up to MaxWalkEntries entries.          *)

NoResolveReturn == [nodes |-> <<>>, panicked |-> FALSE, err |-> NoErr]

\* the errors of os.Stat: none, and the path names nothing
StatErrors == {NoErr, "no such file or directory"}

InitResolve ==
    /\ heap = <<>>
    /\ recv = NilNode
    /\ incoming = <<>>
    /\ ucalls = 0
    /\ uret = NoReturn
    /\ before = <<>>
    /\ pfrom = NilNode
    /\ pto = NilNode
    /\ presult = EmptyStr
    /\ validated = {}
    /\ vw = <<>>
    /\ vcount = 0
    /\ okProbed = {}
    /\ marked = {}
    /\ mux = Unlocked
    /\ gh = NoCall
    /\ gi = NoCall
    /\ \E hasSelector \in BOOLEAN : \E root \in RootPaths :
       \E statErr \in StatErrors :
       \E n \in 1..MaxWalkEntries : \E t \in WalkTrees(n) :
          \* "." and a path that ends in "/" name a directory; without a
          \* selector or with a failing os.Stat nothing is walked
          /\ (root = Dot \/ root[Len(root)] = "/") => t.isDir[1]
          /\ (~hasSelector \/ statErr # NoErr) => n = 1
          /\ rs = [pc |-> "ready", hasSelector |-> hasSelector,
                   root |-> root, statErr |-> statErr, tree |-> t,
                   ret |-> NoResolveReturn]

\* nodes, err := fs.ResolveNodeSelector(ctx, node, ...)
CallResolveNodeSelector ==
    /\ rs.pc = "ready"
    /\ LET r == ResolveNodeSelector(rs.hasSelector, rs.root, rs.statErr,
                                    rs.tree)
       IN  /\ heap' = r.heap
           /\ rs' = [rs EXCEPT !.pc = "done",
                               !.ret = [nodes |-> r.nodes,
                                        panicked |-> r.panicked,
                                        err |-> r.err]]
    /\ UNCHANGED <<unionVars, pathVars, validatorVars, gh, gi>>

NextResolve == CallResolveNodeSelector

SpecResolve == InitResolve /\ [][NextResolve]_vars

----------------------------------------------------------------------------
(* Claims about ResolveNodeSelector, checked under SpecResolve *)

\* the directories d1, ..., dk between the root and entry i, as entries
RECURSIVE DirChain(_, _)
DirChain(t, i) ==
    IF t.up[i] <= 1 THEN <<>> ELSE Append(DirChain(t, t.up[i]), t.up[i])

\* the node reached from the nodes given by following the names given, or
\* nil
RECURSIVE FollowNames(_, _, _)
FollowNames(h, nodes, names) ==
    LET hits == {k \in 1..Len(nodes) : h[nodes[k]].Name = names[1]}
    IN  IF hits = {} THEN NilNode
        ELSE LET first == nodes[CHOOSE k \in hits : \A m \in hits : k <= m]
             IN  IF Len(names) = 1 THEN first
                 ELSE FollowNames(h, h[first].Nodes, Tail(names))

\* C18: ResolveNodeSelector mirrors the directory tree: every entry at
\* root/d1/.../dk/name is a node named name found under the returned top
\* level through the containers d1, ..., dk and held by dk; a directory is
\* a container, a file a document whose Source is its path; the top-level
\* nodes have no parent.
C18_ResolveMirrorsTree ==
    (rs.pc = "done" /\ rs.hasSelector /\ rs.statErr = NoErr
         /\ rs.tree.isDir[1])
        => LET t == rs.tree
               names(i) == [k \in 1..Len(DirChain(t, i)) |->
                               EntryName(rs.root, t, DirChain(t, i)[k])]
                           \o <<EntryName(rs.root, t, i)>>
               node(i) == FollowNames(heap, rs.ret.nodes, names(i))
           IN  /\ ~rs.ret.panicked
               /\ rs.ret.err = NoErr
               /\ \A k \in 1..Len(rs.ret.nodes) :
                     heap[rs.ret.nodes[k]].parent = NilNode
               /\ \A i \in 2..Len(t.up) :
                     /\ node(i) # NilNode
                     /\ node(i) = i + 1
                     /\ heap[node(i)].Source =
                           (IF t.isDir[i] THEN EmptyStr
                            ELSE EntryPath(rs.root, t, i))
                     /\ t.up[i] > 1 => heap[node(i)].parent = t.up[i] + 1
                     /\ Len(heap[node(i)].Nodes) = Len(EntriesIn(t, i))

=============================================================================
